---- MODULE Spec2Model ----
(***************************************************************************)
(* Model of the Commonly channel adapter: the persistent push connection   *)
(* (CommonlyWebSocket, src/src/channels/commonly/websocket.ts) and the     *)
(* per-account event handler and lifecycle (gateway.startAccount,          *)
(* src/extensions/commonly/src/channel.ts).                                *)
(*                                                                         *)
(* Two specifications share the variables:                                 *)
(*   SpecWs  the connection class driven by arbitrary calls of its public  *)
(*           methods and by transport events;                              *)
(*   Spec    one account start: startAccount drives the connection, events *)
(*           arrive on its socket and are processed by the onEvent handler.*)
(***************************************************************************)
EXTENDS Integers, Sequences, FiniteSets, TLC

\* ------------------------------------------------------------------ bounds
MaxSockets == 2       \* sockets one connection object opens over its life
MaxIdsLen == 2        \* length of the list passed to subscribe/unsubscribe
MaxObservers == 2     \* status observers registered on one connection
MaxEvents == 1        \* event frames received in one account start
MaxBlocks == 2        \* reply blocks the dispatcher produces for one event
MaxChannelEvents == 2 \* events one CommonlyChannel transforms
MaxEntries == 6       \* history entries and key points of an ensemble context
MaxPairEvents == 2    \* event frames received where two handlers interleave

Pods == {"a", "b", "c"}

VARIABLES
  \* CommonlyWebSocket
  socket,             \* this.socket: 0 is null, otherwise an index of sockets
  sockets,            \* every socket io() returned, in creation order
  subscribedPodIds,   \* this.subscribedPodIds
  statusHandlers,     \* this.statusHandlers
  emitted,            \* frames passed to socket.emit by the last step
  statusCalls,        \* status handler invocations made by the last step
  lastOp,             \* the method or transport event the last step ran
  unsubscribed,       \* history: pods whose latest effective (un)subscribe removed them
  \* startAccount and its onEvent handler
  run,                \* position of startAccount
  account,            \* ctx.account (podIds)
  aborted,            \* ctx.abortSignal.aborted
  status,             \* the account status kept by ctx.setStatus
  activeConnections,  \* keys of the module-level activeConnections map
  handlers,           \* one record per received event frame, in arrival order
  \* CommonlyClient
  client,             \* the configuration of a client (its two tokens)
  clientCall,         \* the latest call made on the client and its outcome
  \* CommonlyChannel and the body formatters
  inbound,            \* the events a CommonlyChannel received and what it made of them
  formatted,          \* the latest event formatted and its body
  \* outbound.sendText and outbound.sendMedia
  outbound,           \* the latest send made by the host and what it did
  \* history of the tracked set
  firstSubscribed     \* history: the pods ever tracked, in the order they first were

wsVars == <<socket, sockets, subscribedPodIds, statusHandlers, emitted,
            statusCalls, lastOp, unsubscribed>>
acctVars == <<run, account, aborted, status, activeConnections, handlers>>
clientVars == <<client, clientCall>>
channelVars == <<inbound, formatted>>
outboundVars == <<outbound>>
historyVars == <<firstSubscribed>>
vars == <<socket, sockets, subscribedPodIds, statusHandlers, emitted,
          statusCalls, lastOp, unsubscribed,
          run, account, aborted, status, activeConnections, handlers,
          client, clientCall, inbound, formatted, outbound, firstSubscribed>>

\* ------------------------------------------------------------------ helpers
Range(s) == {s[i] : i \in 1..Len(s)}

SeqsUpTo(S, n) == UNION {[1..k -> S] : k \in 0..n}

RECURSIVE Dedupe(_)
\* [...new Set(list)]: first occurrences, in order
Dedupe(s) ==
  IF s = <<>> THEN <<>>
  ELSE LET front == Dedupe(SubSeq(s, 1, Len(s) - 1))
           x == s[Len(s)]
       IN IF x \in Range(front) THEN front ELSE Append(front, x)

RECURSIVE Filter(_, _)
\* list.filter((id) => !drop.has(id))
Filter(s, drop) ==
  IF s = <<>> THEN <<>>
  ELSE LET rest == Filter(Tail(s), drop)
       IN IF Head(s) \in drop THEN rest ELSE <<Head(s)>> \o rest

\* ------------------------------------------------------- CommonlyWebSocket
\* The connection object is handled as a record w, so that one step of
\* startAccount can run several of its methods in a row. w.emitted and
\* w.statusCalls accumulate what the step emitted and reported.
Frame(s, n, ids) == [sock |-> s, name |-> n, podIds |-> ids]
Op(o, s, ids) == [op |-> o, sock |-> s, ids |-> ids]

WsNow == [socket |-> socket,
          sockets |-> sockets,
          subscribedPodIds |-> subscribedPodIds,
          statusHandlers |-> statusHandlers,
          unsubscribed |-> unsubscribed,
          emitted |-> <<>>,
          statusCalls |-> <<>>]

SetWs(w) ==
  /\ socket' = w.socket
  /\ sockets' = w.sockets
  /\ subscribedPodIds' = w.subscribedPodIds
  /\ statusHandlers' = w.statusHandlers
  /\ unsubscribed' = w.unsubscribed
  /\ emitted' = w.emitted
  /\ statusCalls' = w.statusCalls

NewSocket == [connected |-> FALSE,   \* socket.connected
              closed |-> FALSE,      \* socket.disconnect() was called on it
              onceConnect |-> TRUE,  \* handleConnect still attached
              onceError |-> TRUE,    \* handleError still attached
              promise |-> "pending", \* the promise of the connect() that opened it
              settles |-> 0]         \* calls of resolve or reject on that promise

\* faulty variant: the handlers are called latest first
emitStatus_Reversed(w, st) ==
  [w EXCEPT !.statusCalls = @ \o
     [i \in 1..Len(w.statusHandlers) |->
        [handler |-> w.statusHandlers[Len(w.statusHandlers) + 1 - i],
         connected |-> st.connected, info |-> st.info]]]

\* emitStatus: every handler, in registration order
emitStatus(w, st) ==
  [w EXCEPT !.statusCalls = @ \o
     [i \in 1..Len(w.statusHandlers) |->
        [handler |-> w.statusHandlers[i], connected |-> st.connected, info |-> st.info]]]

\* this.socket?.emit(name, {podIds})
SocketEmit(w, n, ids) ==
  IF w.socket = 0 THEN w
  ELSE [w EXCEPT !.emitted = Append(@, Frame(w.socket, n, ids))]

\* the 'connect' handler's replay (websocket.ts 56-58)
ReplayOnConnect(w) ==
  IF Len(w.subscribedPodIds) > 0
    THEN SocketEmit(w, "subscribe", w.subscribedPodIds)
    ELSE w

\* faulty variant: the stored list is overwritten by the ids of the call
MergePodIds_Overwrite(cur, podIds) == Dedupe(podIds)

\* faulty variant: the ids of the call are appended as they are
MergePodIds_Concat(cur, podIds) == cur \o podIds

\* this.subscribedPodIds = [...new Set([...this.subscribedPodIds, ...podIds])]
MergePodIds(cur, podIds) == Dedupe(cur \o podIds)

\* faulty variant: the filter keeps the ids to remove and drops the others
RemovePodIds_Inverted(cur, podIds) == Filter(cur, Range(cur) \ Range(podIds))

\* this.subscribedPodIds.filter((id) => !toRemove.has(id))
RemovePodIds(cur, podIds) == Filter(cur, Range(podIds))

isConnected(w) == w.socket # 0 /\ w.sockets[w.socket].connected

\* observers are named by their registration rank
onStatus(w) == [w EXCEPT !.statusHandlers = Append(@, Len(@) + 1)]

\* faulty variant: the connected check is missing
connect_AlwaysOpens(w) ==
  [w EXCEPT !.sockets = Append(@, NewSocket),
            !.socket = Len(w.sockets) + 1]

\* connect() up to its await: returns at once when connected, otherwise opens
\* a socket, registers the handlers on it and stores it in this.socket
connect(w) ==
  IF isConnected(w) THEN w
  ELSE [w EXCEPT !.sockets = Append(@, NewSocket),
                 !.socket = Len(w.sockets) + 1]

\* transport 'connect' on socket s: the on("connect") handler, then
\* handleConnect when it is still attached
CanConnect(s) ==
  /\ s \in 1..Len(sockets)
  /\ ~sockets[s].connected
  /\ ~sockets[s].closed

onConnect(w, s) ==
  LET w1 == [w EXCEPT !.sockets[s].connected = TRUE]
      w2 == ReplayOnConnect(emitStatus(w1, [connected |-> TRUE, info |-> "none"]))
      sk == w.sockets[s]
  IN IF sk.onceConnect
       THEN [w2 EXCEPT
               !.sockets[s].onceConnect = FALSE,
               \* this.socket?.off("connect_error", handleError)
               !.sockets[s].onceError = IF w.socket = s THEN FALSE ELSE @,
               !.sockets[s].promise = IF @ = "pending" THEN "resolved" ELSE @,
               !.sockets[s].settles = @ + 1]
       ELSE w2

\* transport 'disconnect' on socket s
CanDisconnect(s) ==
  /\ s \in 1..Len(sockets)
  /\ sockets[s].connected

\* faulty variant: a transport 'disconnect' forgets the tracked pods
onDisconnect_ClearsSubscriptions(w, s) ==
  emitStatus([w EXCEPT !.sockets[s].connected = FALSE, !.subscribedPodIds = <<>>],
             [connected |-> FALSE, info |-> "reason"])

onDisconnect(w, s) ==
  emitStatus([w EXCEPT !.sockets[s].connected = FALSE],
             [connected |-> FALSE, info |-> "reason"])

\* transport 'connect_error' on socket s: the on("connect_error") handler, then
\* handleError when it is still attached
onConnectError(w, s) ==
  LET w1 == emitStatus(w, [connected |-> FALSE, info |-> "error"])
      sk == w.sockets[s]
  IN IF sk.onceError
       THEN [w1 EXCEPT
               !.sockets[s].onceError = FALSE,
               \* this.socket?.off("connect", handleConnect)
               !.sockets[s].onceConnect = IF w.socket = s THEN FALSE ELSE @,
               !.sockets[s].promise = IF @ = "pending" THEN "rejected" ELSE @,
               !.sockets[s].settles = @ + 1]
       ELSE w1

\* 'ping' received on socket s
onPing(w, s) == SocketEmit(w, "pong", <<>>)

\* faulty variant: the socket handle is not checked
subscribe_NoSocketGuard(w, podIds) ==
  IF Len(podIds) = 0 THEN w
  ELSE SocketEmit([w EXCEPT
                     !.subscribedPodIds = MergePodIds(@, podIds),
                     !.unsubscribed = @ \ Range(podIds)],
                  "subscribe", podIds)

subscribe(w, podIds) ==
  IF w.socket = 0 \/ Len(podIds) = 0 THEN w
  ELSE SocketEmit([w EXCEPT
                     !.subscribedPodIds = MergePodIds(@, podIds),
                     !.unsubscribed = @ \ Range(podIds)],
                  "subscribe", podIds)

\* faulty variant: the tracked set is updated only while connected
unsubscribe_OnlyWhenConnected(w, podIds) ==
  IF ~isConnected(w) \/ Len(podIds) = 0 THEN w
  ELSE SocketEmit([w EXCEPT
                     !.subscribedPodIds = RemovePodIds(@, podIds),
                     !.unsubscribed = @ \cup Range(podIds)],
                  "unsubscribe", podIds)

unsubscribe(w, podIds) ==
  IF w.socket = 0 \/ Len(podIds) = 0 THEN w
  ELSE SocketEmit([w EXCEPT
                     !.subscribedPodIds = RemovePodIds(@, podIds),
                     !.unsubscribed = @ \cup Range(podIds)],
                  "unsubscribe", podIds)

\* faulty variant: the socket is closed but its handle is kept
disconnect_KeepsHandle(w) ==
  IF w.socket = 0 THEN w
  ELSE LET s == w.socket
           w1 == IF w.sockets[s].connected THEN onDisconnect(w, s) ELSE w
       IN [w1 EXCEPT !.sockets[s].closed = TRUE]

\* disconnect(): socket.disconnect() closes the socket for good and, when it
\* was connected, fires its 'disconnect' handler before this.socket is cleared
disconnect(w) ==
  IF w.socket = 0 THEN w
  ELSE LET s == w.socket
           w1 == IF w.sockets[s].connected THEN onDisconnect(w, s) ELSE w
       IN [w1 EXCEPT !.sockets[s].closed = TRUE, !.socket = 0]

InitWsVars ==
  /\ socket = 0
  /\ sockets = <<>>
  /\ subscribedPodIds = <<>>
  /\ statusHandlers = <<>>
  /\ emitted = <<>>
  /\ statusCalls = <<>>
  /\ lastOp = Op("new", 0, <<>>)
  /\ unsubscribed = {}

\* a client on which no call was made yet
NoCall == [method |-> "none", resp |-> [fetch |-> "network", ok |-> FALSE, body |-> "invalid"],
           outcome |-> "none", value |-> "", error |-> "", requests |-> 0,
           authorization |-> "", warned |-> FALSE]

\* the client of a specification that makes no client call
InitClientIdle ==
  /\ client = [runtimeToken |-> "rt", userToken |-> ""]
  /\ clientCall = NoCall

\* nothing transformed or formatted yet
NoFormatted == [kind |-> "none", event |-> [type |-> "none"], lines |-> <<>>, body |-> ""]

InitChannelIdle ==
  /\ inbound = <<>>
  /\ formatted = NoFormatted

\* no send made yet, nothing subscribed yet
NoSend == [method |-> "none", to |-> <<>>, text |-> "", mediaUrl |-> "", threadId |-> "",
           message |-> "", calls |-> <<>>, outcome |-> "none",
           messageId |-> [kind |-> "none", of |-> ""]]

InitRestIdle ==
  /\ outbound = NoSend
  /\ firstSubscribed = <<>>

InitWs ==
  /\ InitWsVars
  /\ run = "idle"
  /\ account = [podIds |-> <<>>]
  /\ aborted = FALSE
  /\ status = [running |-> FALSE, connected |-> FALSE]
  /\ activeConnections = {}
  /\ handlers = <<>>
  /\ InitClientIdle
  /\ InitChannelIdle
  /\ InitRestIdle

WsOnStatus ==
  /\ Len(statusHandlers) < MaxObservers
  /\ SetWs(onStatus(WsNow))
  /\ lastOp' = Op("onStatus", socket, <<>>)
  /\ UNCHANGED <<acctVars, clientVars, channelVars, outboundVars, historyVars>>

WsConnect ==
  /\ isConnected(WsNow) \/ Len(sockets) < MaxSockets
  /\ SetWs(connect(WsNow))
  /\ lastOp' = Op(IF isConnected(WsNow) THEN "connect.noop" ELSE "connect", socket, <<>>)
  /\ UNCHANGED <<acctVars, clientVars, channelVars, outboundVars, historyVars>>

WsDisconnect ==
  /\ SetWs(disconnect(WsNow))
  /\ lastOp' = Op("disconnect", socket, <<>>)
  /\ UNCHANGED <<acctVars, clientVars, channelVars, outboundVars, historyVars>>

WsSubscribe ==
  \E ids \in SeqsUpTo(Pods, MaxIdsLen) :
    /\ SetWs(subscribe(WsNow, ids))
    /\ lastOp' = Op("subscribe", socket, ids)
    /\ UNCHANGED <<acctVars, clientVars, channelVars, outboundVars, historyVars>>

WsUnsubscribe ==
  \E ids \in SeqsUpTo(Pods, MaxIdsLen) :
    /\ SetWs(unsubscribe(WsNow, ids))
    /\ lastOp' = Op("unsubscribe", socket, ids)
    /\ UNCHANGED <<acctVars, clientVars, channelVars, outboundVars, historyVars>>

WsTransportConnect ==
  \E s \in 1..MaxSockets :
    /\ CanConnect(s)
    /\ SetWs(onConnect(WsNow, s))
    /\ lastOp' = Op("transport.connect", s, <<>>)
    /\ UNCHANGED <<acctVars, clientVars, channelVars, outboundVars, historyVars>>

WsTransportDisconnect ==
  \E s \in 1..MaxSockets :
    /\ CanDisconnect(s)
    /\ SetWs(onDisconnect(WsNow, s))
    /\ lastOp' = Op("transport.disconnect", s, <<>>)
    /\ UNCHANGED <<acctVars, clientVars, channelVars, outboundVars, historyVars>>

WsTransportConnectError ==
  \E s \in 1..MaxSockets :
    /\ CanConnect(s)
    /\ SetWs(onConnectError(WsNow, s))
    /\ lastOp' = Op("transport.connect_error", s, <<>>)
    /\ UNCHANGED <<acctVars, clientVars, channelVars, outboundVars, historyVars>>

WsTransportPing ==
  \E s \in 1..MaxSockets :
    /\ CanDisconnect(s)
    /\ SetWs(onPing(WsNow, s))
    /\ lastOp' = Op("transport.ping", s, <<>>)
    /\ UNCHANGED <<acctVars, clientVars, channelVars, outboundVars, historyVars>>

NextWs ==
  \/ WsOnStatus
  \/ WsConnect
  \/ WsDisconnect
  \/ WsSubscribe
  \/ WsUnsubscribe
  \/ WsTransportConnect
  \/ WsTransportDisconnect
  \/ WsTransportConnectError
  \/ WsTransportPing

SpecWs == InitWs /\ [][NextWs]_vars

\* ------------------------------------------------------------ event texts
RECURSIVE Join(_, _)
\* lines.join(sep)
Join(lines, sep) ==
  IF lines = <<>> THEN ""
  ELSE IF Len(lines) = 1 THEN lines[1]
  ELSE lines[1] \o sep \o Join(Tail(lines), sep)

\* String.prototype.trim on the texts the model uses
Trim(t) ==
  CASE t = " " -> ""
    [] t = " hello " -> "hello"
    [] t = " http://m " -> "http://m"
    [] OTHER -> t

\* faulty variant: the first n entries are kept
LastN_FirstN(seq, n) == IF Len(seq) <= n THEN seq ELSE SubSeq(seq, 1, n)

\* slice(-n)
LastN(seq, n) == IF Len(seq) <= n THEN seq ELSE SubSeq(seq, Len(seq) - n + 1, Len(seq))

NoThread == [present |-> FALSE, postId |-> "", postContent |-> ""]
NoSummary == [present |-> FALSE, title |-> "", channelName |-> "", messageCount |-> 0,
              timeRange |-> "", content |-> ""]
NoContext == [present |-> FALSE, topic |-> "", turnNumber |-> 0, roundNumber |-> 0,
              isStarter |-> FALSE, recentHistory |-> <<>>, keyPoints |-> <<>>]

\* buildSummaryMessage (the two pictographs are written as ASCII tags)
buildSummaryMessage(summary) ==
  IF ~summary.present THEN ""
  ELSE LET title == IF Trim(summary.title) # "" THEN Trim(summary.title) ELSE "Commonly Update"
           l1 == <<title>>
           l2 == IF Trim(summary.channelName) # ""
                   THEN Append(l1, "[link] #" \o Trim(summary.channelName)) ELSE l1
           l3 == IF summary.messageCount # 0
                   THEN Append(l2, "[chat] " \o ToString(summary.messageCount) \o " messages")
                   ELSE l2
           l4 == IF summary.timeRange # "" THEN Append(l3, "[time] " \o summary.timeRange) ELSE l3
           l5 == IF summary.content # "" THEN l4 \o <<"", summary.content>> ELSE l4
       IN Join(l5, "\n")

\* formatThreadBody
formatThreadBody(event) ==
  LET content == Trim(event.content)
  IN IF ~event.thread.present \/ event.thread.postContent = "" THEN content
     ELSE Join(<<"Post: " \o Trim(event.thread.postContent)>>
               \o (IF content # "" THEN <<"Comment: " \o content>> ELSE <<>>), "\n\n")

\* formatEnsembleTurnBody: the lines it collects for an event with a context
formatEnsembleTurnLines(event) ==
  LET context == event.context
      participants == event.participants
      names == [i \in 1..Len(participants) |->
                  (IF participants[i].displayName # "" THEN participants[i].displayName
                   ELSE participants[i].agentType)
                  \o " (" \o participants[i].agentType \o ":"
                  \o (IF participants[i].instanceId # "" THEN participants[i].instanceId
                      ELSE "default") \o ")"]
      hist == LastN(context.recentHistory, 5)
      keys == LastN(context.keyPoints, 5)
      l1 == <<"Ensemble topic: " \o context.topic,
              "Turn: " \o ToString(context.turnNumber)
                 \o " (round " \o ToString(context.roundNumber) \o ")",
              IF context.isStarter
                THEN "You are the starter. Provide the opening message."
                ELSE "You are responding to the ongoing discussion.">>
      l2 == IF Len(participants) > 0
              THEN Append(l1, "Participants: " \o Join(names, ", ")) ELSE l1
      l3 == IF Len(context.recentHistory) > 0
              THEN l2 \o <<"", "Recent history:">>
                      \o [i \in 1..Len(hist) |->
                            "- " \o hist[i].agentType \o ": " \o hist[i].content]
              ELSE l2
      l4 == IF Len(context.keyPoints) > 0
              THEN l3 \o <<"", "Key points:">>
                      \o [i \in 1..Len(keys) |-> "- " \o keys[i].content]
              ELSE l3
  IN l4

\* formatEnsembleTurnBody
formatEnsembleTurnBody(event) ==
  IF ~event.context.present THEN "" ELSE Join(formatEnsembleTurnLines(event), "\n")

\* the handler's rawContent (channel.ts 302-305)
rawContentOf(event) ==
  IF event.type = "ensemble.turn" THEN formatEnsembleTurnBody(event)
  ELSE Trim(event.content)

\* faulty variant: every thread.mention is treated as having a thread id
threadIdOf_AnyThreadMention(event) ==
  IF event.type = "thread.mention" THEN "t1" ELSE ""

\* the handler's threadId (channel.ts 320-321); "" stands for undefined
threadIdOf(event) ==
  IF event.type = "thread.mention" /\ event.thread.present THEN event.thread.postId ELSE ""

\* the handler's body (channel.ts 322)
bodyOf(event) ==
  IF event.type = "thread.mention" THEN formatThreadBody(event) ELSE rawContentOf(event)

\* sanitizeOutboundText: strips inline directive tags from a reply text
DirectiveOnly == "[[reply_to_current]]"
sanitizeOutboundText(text) == IF text = DirectiveOnly THEN "" ELSE text

\* deliver's message (channel.ts 377-379)
composeMessage(payload) ==
  LET text == Trim(sanitizeOutboundText(payload.text))
      media == Trim(payload.mediaUrl)
  IN Join((IF text # "" THEN <<text>> ELSE <<>>)
          \o (IF media # "" THEN <<media>> ELSE <<>>), "\n")

\* ------------------------------------------------------------ event inputs
Event(type, id, podId, content) ==
  [type |-> type, id |-> id, podId |-> podId, content |-> content,
   thread |-> NoThread, summary |-> NoSummary, ensembleId |-> "",
   context |-> NoContext, participants |-> <<>>]

AThread(postContent) == [present |-> TRUE, postId |-> "t1", postContent |-> postContent]
ASummary == [present |-> TRUE, title |-> "", channelName |-> "general", messageCount |-> 3,
             timeRange |-> "", content |-> "digest"]
AContext == [present |-> TRUE, topic |-> "topic", turnNumber |-> 1, roundNumber |-> 0,
             isStarter |-> TRUE, recentHistory |-> <<>>, keyPoints |-> <<>>]

EventIds == {"", "ev"}

EventInputs ==
  {Event("chat.mention", id, "a", c) : id \in EventIds, c \in {" ", " hello "}}
  \cup {Event("chat.mention", "ev", "", "hello")}
  \cup {[Event("thread.mention", id, "a", "hello") EXCEPT !.thread = t] :
          id \in EventIds, t \in {NoThread, AThread("post")}}
  \cup {[Event("thread.mention", "ev", "a", "") EXCEPT !.thread = AThread("post")]}
  \cup {[Event("summary.request", id, "a", "") EXCEPT !.summary = sm] :
          id \in EventIds, sm \in {NoSummary, ASummary}}
  \cup {[Event("ensemble.turn", id, "a", "") EXCEPT !.ensembleId = e, !.context = AContext] :
          id \in EventIds, e \in {"", "ens"}}
  \cup {[Event("ensemble.turn", "ev", "a", "hello") EXCEPT !.ensembleId = "ens"]}
  \cup {Event("heartbeat", "ev", "a", c) : c \in {"", "hello"}}
  \cup {Event("pod.message", "ev", "a", "hello")}
  \cup {Event("unknown.type", "ev", "a", "hello")}

\* the reply payloads the dispatcher may hand to deliver as its k-th block
ReplyTexts == <<"r1", "r2", "r3", "r4">>
Blocks(k) ==
  {[text |-> "", mediaUrl |-> ""],
   [text |-> DirectiveOnly, mediaUrl |-> ""],
   [text |-> ReplyTexts[k], mediaUrl |-> IF k = 1 THEN " http://m " ELSE ""]}

\* ------------------------------------------------- startAccount, onEvent
AccountKey == "default"

\* the reply prefix configured for the agent, as createReplyPrefixContext
\* resolves it
ConfiguredPrefix == "My response:"

\* dispatcherOptions.responsePrefix (channel.ts 367, 373)
responsePrefixOf(event) == ConfiguredPrefix

Call(op, target, text) == [op |-> op, target |-> target, text |-> text, result |-> "pending"]

\* ctx.setStatus merges a patch into the account status
setStatus(st, patch) ==
  [f \in DOMAIN st |-> IF f \in DOMAIN patch THEN patch[f] ELSE st[f]]

RECURSIVE ApplyStatusCalls(_, _)
\* the ws.onStatus handler of startAccount (channel.ts 260-278), once per call
ApplyStatusCalls(st, calls) ==
  IF calls = <<>> THEN st
  ELSE ApplyStatusCalls(
         setStatus(st, [connected |-> calls[1].connected,
                        lastError |-> IF calls[1].info = "error" THEN "error" ELSE "none"]),
         Tail(calls))

InitStatus == [running |-> FALSE, connected |-> FALSE, lastError |-> "none",
               stopped |-> FALSE, lastInboundBy |-> 0, lastOutboundBy |-> 0]

\* the latest call of handler h completes with result
Settle(h, result) ==
  [h EXCEPT !.calls[Len(h.calls)].result = result]

\* the call of handler h named op completes with result
SettleOp(h, op, result) ==
  [h EXCEPT !.calls = [i \in 1..Len(h.calls) |->
                         IF h.calls[i].op = op THEN [h.calls[i] EXCEPT !.result = result]
                         ELSE h.calls[i]]]

AddCall(h, c) == [h EXCEPT !.calls = Append(@, c)]

\* faulty variant: the final acknowledgment is made only when a reply block was posted
ackAfterDispatch_OnlyIfReplied(h) ==
  IF h.ev.id # "" /\ \E i \in 1..Len(h.calls) : h.calls[i].op = "postMessage"
    THEN [AddCall(h, Call("ackEvent", h.ev.id, "")) EXCEPT !.pc = "final.ack"]
    ELSE [h EXCEPT !.pc = "done"]

\* channel.ts 409-411: after dispatch, acknowledge when the event carries an id
ackAfterDispatch(h) ==
  IF h.ev.id # ""
    THEN [AddCall(h, Call("ackEvent", h.ev.id, "")) EXCEPT !.pc = "final.ack"]
    ELSE [h EXCEPT !.pc = "done"]

\* faulty variant: an event without body goes on to the reply pipeline
afterEmptyBody_Dispatch(h) ==
  [AddCall(AddCall(h, [Call("resolveAgentRoute", h.ev.podId, "") EXCEPT !.result = "ok"]),
           Call("recordInboundSession", h.ev.podId, "")) EXCEPT !.pc = "record"]

\* channel.ts 306-311: no body, acknowledge when the event carries an id
afterEmptyBody(h) ==
  IF h.ev.id # ""
    THEN [AddCall(h, Call("ackEvent", h.ev.id, "")) EXCEPT !.pc = "empty.ack"]
    ELSE [h EXCEPT !.pc = "done"]

\* channel.ts 296-299: acknowledge the summary request when it carries an id
summaryAck(h) ==
  IF h.ev.id # ""
    THEN [AddCall(h, Call("ackEvent", h.ev.id, "")) EXCEPT !.pc = "summary.ack"]
    ELSE [h EXCEPT !.pc = "done"]

\* faulty variant: the summary is never posted, the request is only acknowledged
summaryRequest_SkipPost(h) == summaryAck(h)

\* channel.ts 291-295: post the summary text when there is one
summaryRequest(h) ==
  LET summaryText == buildSummaryMessage(h.ev.summary)
  IN IF summaryText # ""
       THEN [AddCall(h, Call("postMessage", h.ev.podId, summaryText)) EXCEPT !.pc = "summary.post"]
       ELSE summaryAck(h)

\* faulty variant: the request is acknowledged whether the post succeeded or not
summaryPostSettled_AckAnyway(h, ok) ==
  summaryAck(Settle(h, IF ok THEN "ok" ELSE "failed"))

\* channel.ts 294-299: the awaited summary post resolved, and the request is
\* acknowledged, or it threw, and the handler ends
summaryPostSettled(h, ok) ==
  IF ok THEN summaryAck(Settle(h, "ok"))
  ELSE [Settle(h, "failed") EXCEPT !.pc = "threw"]

\* faulty variant: the abort check is missing
acceptEvent_NoAbortCheck(isAborted, event) == event.podId # ""

\* channel.ts 281-283: the early returns of the handler
acceptEvent(isAborted, event) == ~isAborted /\ event.podId # ""

\* the fields of a handler: ev the event, pc its position, calls the calls it
\* made on its collaborators, sent the ensembleResponseSent flag, blocks the
\* composed message of every reply block handed to deliver, statusUpdates the
\* number of its ctx.setStatus calls, late whether the abort signal had fired
\* when the event arrived, errors the reply blocks (by position) whose
\* delivery failure was handed to onError
NewHandler(isAborted, event) ==
  [ev |-> event, pc |-> "returned", calls |-> <<>>, sent |-> FALSE,
   blocks |-> <<>>, statusUpdates |-> 0, late |-> isAborted, errors |-> <<>>]

\* faulty variant: the event is acknowledged on receipt, before it is processed
handlerEntry_AckOnReceipt(isAborted, event) ==
  LET h1 == [NewHandler(isAborted, event) EXCEPT !.statusUpdates = 1]
      h2 == IF event.id # "" THEN AddCall(h1, [Call("ackEvent", event.id, "") EXCEPT !.result = "ok"])
            ELSE h1
  IN IF ~acceptEvent(isAborted, event) THEN NewHandler(isAborted, event)
     ELSE IF event.type = "summary.request" THEN summaryRequest(h2)
     ELSE IF rawContentOf(event) = "" THEN [h2 EXCEPT !.pc = "done"]
     ELSE [AddCall(AddCall(h2, [Call("resolveAgentRoute", event.podId, "") EXCEPT !.result = "ok"]),
                   Call("recordInboundSession", event.podId, bodyOf(event)))
             EXCEPT !.pc = "record"]

\* faulty variant: an event waits until the handlers before it have finished
handlerEntry_AfterPrevious(isAborted, event) ==
  LET h0 == NewHandler(isAborted, event)
      h1 == [h0 EXCEPT !.statusUpdates = 1]
  IN IF ~acceptEvent(isAborted, event) THEN h0
     ELSE IF \E n \in 1..Len(handlers) : handlers[n].pc \notin {"returned", "done", "threw"}
       THEN [h0 EXCEPT !.pc = "queued"]
     ELSE IF event.type = "summary.request" THEN summaryRequest(h1)
     ELSE IF rawContentOf(event) = "" THEN afterEmptyBody(h1)
     ELSE [AddCall(AddCall(h1, [Call("resolveAgentRoute", event.podId, "") EXCEPT !.result = "ok"]),
                   Call("recordInboundSession", event.podId, bodyOf(event)))
             EXCEPT !.pc = "record"]

\* the onEvent handler from its entry to its first await (channel.ts 280-365)
handlerEntry(isAborted, event) ==
  LET h0 == NewHandler(isAborted, event)
      h1 == [h0 EXCEPT !.statusUpdates = 1]
  IN IF ~acceptEvent(isAborted, event) THEN h0
     ELSE IF event.type = "summary.request" THEN summaryRequest(h1)
     ELSE IF rawContentOf(event) = "" THEN afterEmptyBody(h1)
     ELSE [AddCall(AddCall(h1, [Call("resolveAgentRoute", event.podId, "") EXCEPT !.result = "ok"]),
                   Call("recordInboundSession", event.podId, bodyOf(event)))
             EXCEPT !.pc = "record"]

\* faulty variant: the report is made for every posted block
shouldReport_EveryBlock(h) ==
  h.ev.type = "ensemble.turn" /\ h.ev.ensembleId # ""

\* faulty variant: the flag is shared by the handlers of the account
shouldReport_SharedFlag(h) ==
  /\ h.ev.type = "ensemble.turn"
  /\ h.ev.ensembleId # ""
  /\ \A n \in 1..Len(handlers) : ~handlers[n].sent

\* channel.ts 385-388: report the ensemble response once per event
shouldReport(h) ==
  h.ev.type = "ensemble.turn" /\ ~h.sent /\ h.ev.ensembleId # ""

\* faulty variant: after the abort signal deliver posts nothing
deliverEntry_NothingAfterAbort(h, payload) ==
  LET message == composeMessage(payload)
      threadId == threadIdOf(h.ev)
      h1 == [h EXCEPT !.blocks = Append(@, message)]
  IN IF message = "" \/ aborted THEN h1
     ELSE IF threadId # ""
       THEN [AddCall(h1, Call("postThreadComment", threadId, message)) EXCEPT !.pc = "deliver.post"]
       ELSE [AddCall(h1, Call("postMessage", h.ev.podId, message)) EXCEPT !.pc = "deliver.post"]

\* deliver from its entry to its first await (channel.ts 376-384)
deliverEntry(h, payload) ==
  LET message == composeMessage(payload)
      threadId == threadIdOf(h.ev)
      h1 == [h EXCEPT !.blocks = Append(@, message)]
  IN IF message = "" THEN h1
     ELSE IF threadId # ""
       THEN [AddCall(h1, Call("postThreadComment", threadId, message)) EXCEPT !.pc = "deliver.post"]
       ELSE [AddCall(h1, Call("postMessage", h.ev.podId, message)) EXCEPT !.pc = "deliver.post"]

\* deliver after its post resolved (channel.ts 385-402), up to the next await
deliverPosted(h) ==
  LET h1 == Settle(h, "ok")
      message == h.calls[Len(h.calls)].text
  IN IF threadIdOf(h.ev) = "" /\ shouldReport(h1)
       THEN [AddCall(h1, Call("reportEnsembleResponse", h.ev.ensembleId, message))
               EXCEPT !.sent = TRUE, !.pc = "deliver.report"]
       ELSE [h1 EXCEPT !.statusUpdates = @ + 1, !.pc = "dispatch"]

\* faulty variant: a failed delivery ends the handler
deliverFailed_Rejects(h) ==
  [Settle(h, "failed") EXCEPT !.pc = "threw"]

\* deliver threw on its latest call: the dispatcher hands the error to onError
\* (channel.ts 403-405), which logs it, and goes on with its next block
deliverFailed(h) ==
  [Settle(h, "failed") EXCEPT !.errors = Append(@, Len(h.blocks)), !.pc = "dispatch"]

\* faulty variant: a failed record rejects the handler
recordSettled_FailureRejects(h, ok) ==
  IF ok THEN [AddCall(Settle(h, "ok"),
                      Call("dispatchReply", h.ev.podId, responsePrefixOf(h.ev)))
                EXCEPT !.pc = "dispatch"]
  ELSE [Settle(h, "failed") EXCEPT !.pc = "threw"]

\* recordInboundSession resolved, after a record error was handed to
\* onRecordError or without one; the handler calls the dispatcher
\* (channel.ts 351-375)
recordSettled(h, ok) ==
  [AddCall(Settle(h, IF ok THEN "ok" ELSE "logged"),
           Call("dispatchReply", h.ev.podId, responsePrefixOf(h.ev)))
     EXCEPT !.pc = "dispatch"]

HandlerStep(n, h, st) ==
  /\ handlers' = [handlers EXCEPT ![n] = h]
  /\ status' = st
  /\ SetWs(WsNow)
  /\ lastOp' = Op("handler", n, <<>>)
  /\ UNCHANGED <<run, account, aborted, activeConnections, clientVars, channelVars, outboundVars, historyVars>>

InitAcct ==
  /\ run = "idle"
  /\ account = [podIds |-> <<>>]
  /\ aborted = FALSE
  /\ status = InitStatus
  /\ activeConnections = {}
  /\ handlers = <<>>

Init == InitWsVars /\ InitAcct /\ InitClientIdle /\ InitChannelIdle /\ InitRestIdle

\* startAccount up to `await ws.connect()` (channel.ts 229-414)
StartAccount ==
  /\ run = "idle"
  /\ \E pods \in {<<>>, <<"a", "b">>} : account' = [podIds |-> pods]
  /\ status' = setStatus(status, [running |-> TRUE, connected |-> FALSE])
  /\ SetWs(connect(onStatus(WsNow)))
  /\ lastOp' = Op("startAccount", 0, <<>>)
  /\ run' = "connecting"
  /\ UNCHANGED <<aborted, activeConnections, handlers, clientVars, channelVars, outboundVars, historyVars>>

\* faulty variant: the socket is left as it is
teardown_KeepsSocket(w) == w

\* channel.ts 435-442
teardown(w) == disconnect(w)
StoppedPatch == [running |-> FALSE, connected |-> FALSE, stopped |-> TRUE]

\* channel.ts 419
registerConnection(conns) == conns \cup {AccountKey}

\* faulty variant: the entry is left in the registry
unregisterConnection_KeepsEntry(conns) == conns

\* channel.ts 436
unregisterConnection(conns) == conns \ {AccountKey}

\* faulty variant: one subscribe call per configured pod
initialSubscribe_OnePerPod(w) ==
  IF Len(account.podIds) = 2
    THEN subscribe(subscribe(w, <<account.podIds[1]>>), <<account.podIds[2]>>)
    ELSE w

\* channel.ts 415-417
initialSubscribe(w) ==
  IF Len(account.podIds) > 0 THEN subscribe(w, account.podIds) ELSE w

\* transport 'connect' on the account's socket; when it resolves the pending
\* ws.connect(), startAccount goes on to subscribe and register, and tears
\* down at once when the abort signal has already fired (channel.ts 414-442)
AcctTransportConnect ==
  \E s \in 1..MaxSockets :
    /\ CanConnect(s)
    /\ LET resolves == run = "connecting" /\ sockets[s].onceConnect
           w1 == onConnect(WsNow, s)
           w2 == IF resolves THEN initialSubscribe(w1) ELSE w1
           w3 == IF resolves /\ aborted THEN teardown(w2) ELSE w2
           st == ApplyStatusCalls(status, w3.statusCalls)
       IN /\ SetWs(w3)
          /\ run' = IF resolves THEN (IF aborted THEN "stopped" ELSE "running") ELSE run
          /\ activeConnections' =
               IF resolves
                 THEN (IF aborted THEN unregisterConnection(registerConnection(activeConnections))
                       ELSE registerConnection(activeConnections))
                 ELSE activeConnections
          /\ status' = IF resolves /\ aborted THEN setStatus(st, StoppedPatch) ELSE st
    /\ lastOp' = Op("transport.connect", s, <<>>)
    /\ UNCHANGED <<account, aborted, handlers, clientVars, channelVars, outboundVars, historyVars>>

\* transport 'connect_error'; when it rejects the pending ws.connect(),
\* startAccount rejects and leaves the socket as it is
AcctTransportConnectError ==
  \E s \in 1..MaxSockets :
    /\ CanConnect(s)
    /\ SetWs(onConnectError(WsNow, s))
    /\ status' = ApplyStatusCalls(status, statusCalls')
    /\ run' = IF run = "connecting" /\ sockets[s].onceError THEN "failed" ELSE run
    /\ lastOp' = Op("transport.connect_error", s, <<>>)
    /\ UNCHANGED <<account, aborted, activeConnections, handlers, clientVars, channelVars, outboundVars, historyVars>>

AcctTransportDisconnect ==
  \E s \in 1..MaxSockets :
    /\ CanDisconnect(s)
    /\ SetWs(onDisconnect(WsNow, s))
    /\ status' = ApplyStatusCalls(status, statusCalls')
    /\ lastOp' = Op("transport.disconnect", s, <<>>)
    /\ UNCHANGED <<run, account, aborted, activeConnections, handlers, clientVars, channelVars, outboundVars, historyVars>>

\* the abort signal fires; a running startAccount resumes and tears down
\* (channel.ts 421-442)
AbortSignal ==
  /\ ~aborted
  /\ run \in {"connecting", "running", "failed"}
  /\ aborted' = TRUE
  /\ IF run = "running"
       THEN LET w == teardown(WsNow)
            IN /\ SetWs(w)
               /\ status' = setStatus(ApplyStatusCalls(status, w.statusCalls), StoppedPatch)
               /\ activeConnections' = unregisterConnection(activeConnections)
               /\ run' = "stopped"
       ELSE /\ SetWs(WsNow)
            /\ UNCHANGED <<status, activeConnections, run>>
  /\ lastOp' = Op("abort", 0, <<>>)
  /\ UNCHANGED <<account, handlers, clientVars, channelVars, outboundVars, historyVars>>

\* an 'event' frame arrives on a connected socket: the handler runs to its
\* first await (websocket.ts 49-51, channel.ts 280-365)
ReceiveEvent ==
  \E s \in 1..MaxSockets, event \in EventInputs :
    /\ CanDisconnect(s)
    /\ Len(handlers) < MaxEvents
    /\ LET n == Len(handlers) + 1
           h == handlerEntry(aborted, event)
       IN /\ handlers' = Append(handlers, h)
          /\ status' = IF h.statusUpdates > 0 THEN setStatus(status, [lastInboundBy |-> n])
                       ELSE status
    /\ SetWs(WsNow)
    /\ lastOp' = Op("transport.event", s, <<>>)
    /\ UNCHANGED <<run, account, aborted, activeConnections, clientVars, channelVars, outboundVars, historyVars>>

\* the summary post settles (channel.ts 294-299); a failed post rejects the handler
SummaryPostSettles ==
  \E n \in 1..Len(handlers), ok \in BOOLEAN :
    /\ handlers[n].pc = "summary.post"
    /\ LET h == handlers[n]
       IN HandlerStep(n, summaryPostSettled(h, ok), status)

\* an ackEvent call settles; a failed one rejects the handler
AckSettles ==
  \E n \in 1..Len(handlers), ok \in BOOLEAN :
    /\ handlers[n].pc \in {"summary.ack", "empty.ack", "final.ack"}
    /\ LET h == handlers[n]
       IN HandlerStep(n,
            IF ok THEN [Settle(h, "ok") EXCEPT !.pc = "done"]
            ELSE [Settle(h, "failed") EXCEPT !.pc = "threw"],
            status)

\* recordInboundSession settles (a record error only reaches onRecordError);
\* the handler calls the dispatcher (channel.ts 351-369)
RecordSettles ==
  \E n \in 1..Len(handlers), ok \in BOOLEAN :
    /\ handlers[n].pc = "record"
    /\ LET h == handlers[n]
       IN HandlerStep(n, recordSettled(h, ok), status)

\* the dispatcher hands its next reply block to deliver
DispatcherDelivers ==
  \E n \in 1..Len(handlers) :
    /\ handlers[n].pc = "dispatch"
    /\ Len(handlers[n].blocks) < MaxBlocks
    /\ \E payload \in Blocks(Len(handlers[n].blocks) + 1) :
         HandlerStep(n, deliverEntry(handlers[n], payload), status)

\* the post of a reply block settles: a failure leaves deliver by an exception,
\* which the dispatcher passes to onError
DeliverPostSettles ==
  \E n \in 1..Len(handlers), ok \in BOOLEAN :
    /\ handlers[n].pc = "deliver.post"
    /\ LET h == IF ok THEN deliverPosted(handlers[n])
                ELSE deliverFailed(handlers[n])
       IN HandlerStep(n, h,
            IF h.statusUpdates > handlers[n].statusUpdates
              THEN setStatus(status, [lastOutboundBy |-> n]) ELSE status)

\* reportEnsembleResponse settles: it returns on a non-success status, and
\* throws when the request or the reading of its body fails
DeliverReportSettles ==
  \E n \in 1..Len(handlers), result \in {"ok", "soft", "failed"} :
    /\ handlers[n].pc = "deliver.report"
    /\ LET h == Settle(handlers[n], result)
       IN IF result = "failed"
            THEN HandlerStep(n, deliverFailed(handlers[n]), status)
            ELSE HandlerStep(n, [h EXCEPT !.statusUpdates = @ + 1, !.pc = "dispatch"],
                             setStatus(status, [lastOutboundBy |-> n]))

\* the dispatcher has no more blocks: dispatch resolves and the handler
\* acknowledges (channel.ts 407-411)
DispatchCompletes ==
  \E n \in 1..Len(handlers) :
    /\ handlers[n].pc = "dispatch"
    /\ HandlerStep(n, ackAfterDispatch(SettleOp(handlers[n], "dispatchReply", "ok")), status)

Next ==
  \/ StartAccount
  \/ AcctTransportConnect
  \/ AcctTransportConnectError
  \/ AcctTransportDisconnect
  \/ AbortSignal
  \/ ReceiveEvent
  \/ SummaryPostSettles
  \/ AckSettles
  \/ RecordSettles
  \/ DispatcherDelivers
  \/ DeliverPostSettles
  \/ DeliverReportSettles
  \/ DispatchCompletes

Spec == Init /\ [][Next]_vars

\* ----------------------------------------------------------- CommonlyClient
\* A client is its configuration; a call is modelled by what it does with one
\* HTTP response: resp.fetch says whether fetch returned a response or failed
\* ("network"), resp.ok is the response's ok flag, resp.body what res.json()
\* finds: "full" (an object with the field read), "empty" (an object without
\* it) or "invalid" (no JSON, res.json() rejects).
RuntimeTokens == {"", " ", "rt"}
UserTokens == {"", " ", "ut"}
ClientConfigs ==
  {[runtimeToken |-> r, userToken |-> u] : r \in RuntimeTokens, u \in UserTokens}

Responses ==
  {[fetch |-> "network", ok |-> FALSE, body |-> "invalid"]}
  \cup {[fetch |-> "ok", ok |-> o, body |-> b] :
          o \in BOOLEAN, b \in {"full", "empty", "invalid"}}

\* the outcome of a call: requests is the number of HTTP requests issued,
\* authorization the bearer token they carried
Raised(error, requests, token) ==
  [outcome |-> "raised", value |-> "", error |-> error, requests |-> requests,
   authorization |-> token, warned |-> FALSE]

Returned(value, token, warned) ==
  [outcome |-> "returned", value |-> value, error |-> "", requests |-> 1,
   authorization |-> token, warned |-> warned]

runtimeHeaders(config) ==
  LET token == Trim(config.runtimeToken)
  IN IF token = "" THEN [error |-> "Commonly runtime token is required", token |-> ""]
     ELSE [error |-> "", token |-> token]

\* faulty variant: the runtime token is not used when the user token is missing
userHeaders_NoFallback(config) ==
  LET token == Trim(config.userToken)
  IN IF token = "" THEN [error |-> "Commonly user token is required", token |-> ""]
     ELSE [error |-> "", token |-> token]

userHeaders(config) ==
  LET token == IF Trim(config.userToken) # "" THEN Trim(config.userToken)
               ELSE Trim(config.runtimeToken)
  IN IF token = "" THEN [error |-> "Commonly user token is required", token |-> ""]
     ELSE [error |-> "", token |-> token]

\* `return res.json()`
ReadJson(resp, token, warned) ==
  IF resp.body = "invalid" THEN Raised("json", 1, token)
  ELSE Returned(IF resp.body = "full" THEN "json" ELSE "{}", token, warned)

\* `const data = await res.json(); return data.field || []`
ReadField(resp, token) ==
  IF resp.body = "invalid" THEN Raised("json", 1, token)
  ELSE Returned(IF resp.body = "full" THEN "list" ELSE "[]", token, FALSE)

\* a method that throws on a response that is not ok, then reads with read
\* ("json", "field" or "none")
ThrowingCall(headers, resp, read) ==
  IF headers.error # "" THEN Raised("config", 0, "")
  ELSE IF resp.fetch = "network" THEN Raised("network", 1, headers.token)
  ELSE IF ~resp.ok THEN Raised("status", 1, headers.token)
  ELSE IF read = "json" THEN ReadJson(resp, headers.token, FALSE)
  ELSE IF read = "field" THEN ReadField(resp, headers.token)
  ELSE Returned("undefined", headers.token, FALSE)

\* a method that warns and returns default on a response that is not ok
DefaultingCall(headers, resp, read, default) ==
  IF headers.error # "" THEN Raised("config", 0, "")
  ELSE IF resp.fetch = "network" THEN Raised("network", 1, headers.token)
  ELSE IF ~resp.ok THEN Returned(default, headers.token, TRUE)
  ELSE IF read = "json" THEN ReadJson(resp, headers.token, FALSE)
  ELSE ReadField(resp, headers.token)

healthCheck(config, resp) ==
  IF resp.fetch = "network" THEN Returned("false", "", FALSE)
  ELSE Returned(IF resp.ok THEN "true" ELSE "false", "", FALSE)

fetchEvents(config, resp) == ThrowingCall(runtimeHeaders(config), resp, "field")

ackEvent(config, resp) == ThrowingCall(runtimeHeaders(config), resp, "none")

postMessage(config, resp) == ThrowingCall(runtimeHeaders(config), resp, "json")

postThreadComment(config, resp) == ThrowingCall(runtimeHeaders(config), resp, "json")

getContext(config, resp) == DefaultingCall(runtimeHeaders(config), resp, "json", "null")

getMessages(config, resp) == DefaultingCall(runtimeHeaders(config), resp, "field", "[]")

search(config, resp) == DefaultingCall(userHeaders(config), resp, "field", "[]")

readMemory(config, resp) == DefaultingCall(userHeaders(config), resp, "json", "null")

\* faulty variant: a failed write is only warned about
writeMemory_SoftFailure(config, resp) ==
  DefaultingCall(userHeaders(config), resp, "json", "null")

writeMemory(config, resp) == ThrowingCall(userHeaders(config), resp, "json")

getSummaries(config, resp) == DefaultingCall(userHeaders(config), resp, "field", "[]")

\* warns on a response that is not ok and goes on to read its body
reportEnsembleResponse(config, resp) ==
  LET headers == runtimeHeaders(config)
  IN IF headers.error # "" THEN Raised("config", 0, "")
     ELSE IF resp.fetch = "network" THEN Raised("network", 1, headers.token)
     ELSE ReadJson(resp, headers.token, ~resp.ok)

InitClient ==
  /\ InitWsVars
  /\ InitAcct
  /\ client \in ClientConfigs
  /\ clientCall = NoCall
  /\ InitChannelIdle
  /\ InitRestIdle

ClientStep(method, resp, result) ==
  /\ clientCall' = [method |-> method, resp |-> resp,
                    outcome |-> result.outcome, value |-> result.value,
                    error |-> result.error, requests |-> result.requests,
                    authorization |-> result.authorization, warned |-> result.warned]
  /\ UNCHANGED <<client, wsVars, acctVars, channelVars, outboundVars, historyVars>>

ClientHealthCheck ==
  \E resp \in Responses : ClientStep("healthCheck", resp, healthCheck(client, resp))

ClientFetchEvents ==
  \E resp \in Responses : ClientStep("fetchEvents", resp, fetchEvents(client, resp))

ClientAckEvent ==
  \E resp \in Responses : ClientStep("ackEvent", resp, ackEvent(client, resp))

ClientPostMessage ==
  \E resp \in Responses : ClientStep("postMessage", resp, postMessage(client, resp))

ClientPostThreadComment ==
  \E resp \in Responses :
    ClientStep("postThreadComment", resp, postThreadComment(client, resp))

ClientGetContext ==
  \E resp \in Responses : ClientStep("getContext", resp, getContext(client, resp))

ClientGetMessages ==
  \E resp \in Responses : ClientStep("getMessages", resp, getMessages(client, resp))

ClientSearch ==
  \E resp \in Responses : ClientStep("search", resp, search(client, resp))

ClientReadMemory ==
  \E resp \in Responses : ClientStep("readMemory", resp, readMemory(client, resp))

ClientWriteMemory ==
  \E resp \in Responses : ClientStep("writeMemory", resp, writeMemory(client, resp))

ClientGetSummaries ==
  \E resp \in Responses : ClientStep("getSummaries", resp, getSummaries(client, resp))

ClientReportEnsembleResponse ==
  \E resp \in Responses :
    ClientStep("reportEnsembleResponse", resp, reportEnsembleResponse(client, resp))

NextClient ==
  \/ ClientHealthCheck
  \/ ClientFetchEvents
  \/ ClientAckEvent
  \/ ClientPostMessage
  \/ ClientPostThreadComment
  \/ ClientGetContext
  \/ ClientGetMessages
  \/ ClientSearch
  \/ ClientReadMemory
  \/ ClientWriteMemory
  \/ ClientGetSummaries
  \/ ClientReportEnsembleResponse

SpecClient == InitClient /\ [][NextClient]_vars

\* ---------------------------------------------------------- CommonlyChannel
\* transformEvent: the inbound message made of an event, or none (null).
\* metadata is given by the names of the payload fields it carries.
NoMessage == [present |-> FALSE, id |-> "", channelId |-> "", type |-> "",
              content |-> "", metadata |-> {}]

InboundMessage(event, type, content, metadata) ==
  [present |-> TRUE, id |-> event.id, channelId |-> event.podId, type |-> type,
   content |-> content, metadata |-> metadata]

\* faulty variant: an event of another type becomes a plain message
transformEvent_DefaultMessage(event) ==
  InboundMessage(event, "message", event.content, {"mentions", "messageId"})

transformEvent(event) ==
  CASE event.type = "chat.mention" ->
         InboundMessage(event, "message", event.content, {"mentions", "messageId"})
    [] event.type = "thread.mention" ->
         InboundMessage(event, "thread_mention", event.content, {"thread", "messageId"})
    [] event.type = "ensemble.turn" ->
         InboundMessage(event, "ensemble_turn",
                        IF event.context.present THEN event.context.topic ELSE "",
                        {"ensembleId", "context"})
    [] OTHER -> NoMessage

\* the handler CommonlyChannel.onEvent registers on the connection: the event
\* is transformed and the channel's handler is called when there is a message
ChannelOnEvent ==
  \E event \in EventInputs :
    /\ Len(inbound) < MaxChannelEvents
    /\ LET message == transformEvent(event)
       IN inbound' = Append(inbound, [event |-> event, message |-> message,
                                      handled |-> message.present])
    /\ UNCHANGED <<formatted, wsVars, acctVars, clientVars, outboundVars, historyVars>>

InitChannel ==
  /\ InitWsVars
  /\ InitAcct
  /\ InitClientIdle
  /\ InitChannelIdle
  /\ InitRestIdle

NextChannel == ChannelOnEvent

SpecChannel == InitChannel /\ [][NextChannel]_vars

\* ------------------------------------------------------------ event bodies
\* formatThreadBody and formatEnsembleTurnBody applied to events drawn from
\* bounded sets.
HistoryEntry(i) == [agentType |-> "agent", content |-> "h" \o ToString(i)]
KeyPoint(i) == [content |-> "k" \o ToString(i)]
Participant == [agentType |-> "openclaw", instanceId |-> "", displayName |-> "Cuz"]

EnsembleContexts ==
  {[present |-> TRUE, topic |-> "topic", turnNumber |-> 1, roundNumber |-> 0,
    isStarter |-> st,
    recentHistory |-> [i \in 1..nh |-> HistoryEntry(i)],
    keyPoints |-> [i \in 1..nk |-> KeyPoint(i)]] :
     st \in BOOLEAN, nh \in 0..MaxEntries, nk \in 0..MaxEntries}

EnsembleTurnInputs ==
  {[Event("ensemble.turn", "ev", "a", "") EXCEPT !.context = c, !.participants = p] :
     c \in EnsembleContexts \cup {NoContext}, p \in {<<>>, <<Participant>>}}

ThreadInputs ==
  {[Event("thread.mention", "ev", "a", c) EXCEPT !.thread = t] :
     c \in {"", " hello "}, t \in {NoThread, AThread(""), AThread("post")}}

FormatEnsembleTurn ==
  \E event \in EnsembleTurnInputs :
    /\ formatted' = [kind |-> "ensemble.turn", event |-> event,
                     lines |-> IF event.context.present
                                 THEN formatEnsembleTurnLines(event) ELSE <<>>,
                     body |-> formatEnsembleTurnBody(event)]
    /\ UNCHANGED <<inbound, wsVars, acctVars, clientVars, outboundVars, historyVars>>

FormatThread ==
  \E event \in ThreadInputs :
    /\ formatted' = [kind |-> "thread.mention", event |-> event,
                     lines |-> <<>>, body |-> formatThreadBody(event)]
    /\ UNCHANGED <<inbound, wsVars, acctVars, clientVars, outboundVars, historyVars>>

NextBody ==
  \/ FormatEnsembleTurn
  \/ FormatThread

SpecBody == InitChannel /\ [][NextBody]_vars

\* ------------------------------------------------------------ outbound send
\* A destination is written as the sequence of its parts, e.g.
\* <<"commonly:", "pod:", "a">> for "commonly:pod:a".
Lower(part) ==
  CASE part = "Commonly:" -> "commonly:"
    [] part = "POD:" -> "pod:"
    [] OTHER -> part

StripPrefix(parts, prefix) ==
  IF parts # <<>> /\ Lower(Head(parts)) = prefix THEN Tail(parts) ELSE parts

\* raw.replace(/^commonly:/i, "").replace(/^pod:/i, "").trim()
normalizePodId(raw) ==
  Trim(Join(StripPrefix(StripPrefix(raw, "commonly:"), "pod:"), ""))

\* `${podId}:${Date.now()}`
SyntheticId(podId) == [kind |-> "synthetic", of |-> podId]
\* String(threadId)
ThreadMessageId(threadId) == [kind |-> "thread", of |-> threadId]

\* what a send did: the message it composed, the client call it made (none
\* when target = ""), and the id it returns when that call succeeds
SendResult(message, op, target, messageId) ==
  [message |-> message, op |-> op, target |-> target, messageId |-> messageId]

\* outbound.sendText; threadId "" stands for undefined
sendText(to, text, threadId) ==
  LET podId == normalizePodId(to)
      message == Trim(sanitizeOutboundText(text))
  IN IF message = "" THEN SendResult(message, "none", "", SyntheticId(podId))
     ELSE IF threadId # ""
       THEN SendResult(message, "postThreadComment", threadId, ThreadMessageId(threadId))
       ELSE SendResult(message, "postMessage", podId, SyntheticId(podId))

\* outbound.sendMedia
sendMedia(to, text, mediaUrl, threadId) ==
  LET podId == normalizePodId(to)
      t == sanitizeOutboundText(text)
      m == Trim(mediaUrl)
      message == Join((IF t # "" THEN <<t>> ELSE <<>>)
                      \o (IF m # "" THEN <<m>> ELSE <<>>), "\n")
  IN IF threadId # ""
       THEN SendResult(message, "postThreadComment", threadId, ThreadMessageId(threadId))
       ELSE SendResult(message, "postMessage", podId, SyntheticId(podId))

Destinations ==
  {<<"a">>, <<"pod:", "a">>, <<"commonly:", "a">>, <<"Commonly:", "POD:", "a">>,
   <<"pod:", "commonly:", "a">>}
SendTexts == {"", " ", DirectiveOnly, " hello "}
SendMedia == {"", " http://m "}
SendThreads == {"", "t1"}

\* a send made by the host: the client call it makes, if any, succeeds or throws
Sent(method, to, text, mediaUrl, threadId, r, ok) ==
  [method |-> method, to |-> to, text |-> text, mediaUrl |-> mediaUrl,
   threadId |-> threadId, message |-> r.message,
   calls |-> IF r.op = "none" THEN <<>>
             ELSE <<[Call(r.op, r.target, r.message)
                       EXCEPT !.result = IF ok THEN "ok" ELSE "failed"]>>,
   outcome |-> IF r.op = "none" \/ ok THEN "returned" ELSE "raised",
   messageId |-> IF r.op = "none" \/ ok THEN r.messageId ELSE [kind |-> "none", of |-> ""]]

SendText ==
  \E to \in Destinations, text \in SendTexts, threadId \in SendThreads, ok \in BOOLEAN :
    /\ outbound' = Sent("sendText", to, text, "", threadId, sendText(to, text, threadId), ok)
    /\ UNCHANGED <<wsVars, acctVars, clientVars, channelVars, historyVars>>

SendMediaCall ==
  \E to \in Destinations, text \in SendTexts, mediaUrl \in SendMedia,
     threadId \in SendThreads, ok \in BOOLEAN :
    /\ outbound' = Sent("sendMedia", to, text, mediaUrl, threadId,
                        sendMedia(to, text, mediaUrl, threadId), ok)
    /\ UNCHANGED <<wsVars, acctVars, clientVars, channelVars, historyVars>>

NextOutbound ==
  \/ SendText
  \/ SendMediaCall

SpecOutbound == InitChannel /\ [][NextOutbound]_vars

\* ------------------------------------------- the tracked set and its history
\* The connection driven by subscribe, unsubscribe, connect, the transport and
\* disconnect, with the order in which pods were first subscribed.
TrackStep(w, op) ==
  /\ SetWs(w)
  /\ lastOp' = op
  /\ UNCHANGED <<acctVars, clientVars, channelVars, outboundVars>>

TrackConnect ==
  /\ ~isConnected(WsNow)
  /\ Len(sockets) < MaxSockets
  /\ TrackStep(connect(WsNow), Op("connect", socket, <<>>))
  /\ UNCHANGED firstSubscribed

TrackDisconnect ==
  /\ socket # 0
  /\ TrackStep(disconnect(WsNow), Op("disconnect", socket, <<>>))
  /\ UNCHANGED firstSubscribed

TrackTransportConnect ==
  \E s \in 1..MaxSockets :
    /\ CanConnect(s)
    /\ TrackStep(onConnect(WsNow, s), Op("transport.connect", s, <<>>))
    /\ UNCHANGED firstSubscribed

TrackTransportDisconnect ==
  \E s \in 1..MaxSockets :
    /\ CanDisconnect(s)
    /\ TrackStep(onDisconnect(WsNow, s), Op("transport.disconnect", s, <<>>))
    /\ UNCHANGED firstSubscribed

TrackSubscribe ==
  \E ids \in SeqsUpTo(Pods, MaxIdsLen) :
    /\ TrackStep(subscribe(WsNow, ids), Op("subscribe", socket, ids))
    /\ firstSubscribed' = IF subscribedPodIds' # subscribedPodIds
                            THEN Dedupe(firstSubscribed \o ids)
                            ELSE firstSubscribed

TrackUnsubscribe ==
  \E ids \in SeqsUpTo(Pods, MaxIdsLen) :
    /\ TrackStep(unsubscribe(WsNow, ids), Op("unsubscribe", socket, ids))
    /\ UNCHANGED firstSubscribed

NextTrack ==
  \/ TrackConnect
  \/ TrackDisconnect
  \/ TrackTransportConnect
  \/ TrackTransportDisconnect
  \/ TrackSubscribe
  \/ TrackUnsubscribe

SpecTrack == InitWs /\ [][NextTrack]_vars

\* ----------------------------------------------- two events on one account
\* An account that receives two different events, whose handlers interleave.
PairInputs ==
  {[Event("ensemble.turn", "ev1", "a", "") EXCEPT !.ensembleId = "ens1", !.context = AContext],
   [Event("ensemble.turn", "ev2", "a", "") EXCEPT !.ensembleId = "ens2", !.context = AContext]}

\* an 'event' frame carrying an event not received yet arrives
ReceiveEventPair ==
  \E s \in 1..MaxSockets, event \in PairInputs :
    /\ CanDisconnect(s)
    /\ Len(handlers) < MaxPairEvents
    /\ \A n \in 1..Len(handlers) : handlers[n].ev.id # event.id
    /\ LET n == Len(handlers) + 1
           h == handlerEntry(aborted, event)
       IN /\ handlers' = Append(handlers, h)
          /\ status' = IF h.statusUpdates > 0 THEN setStatus(status, [lastInboundBy |-> n])
                       ELSE status
    /\ SetWs(WsNow)
    /\ lastOp' = Op("transport.event", s, <<>>)
    /\ UNCHANGED <<run, account, aborted, activeConnections, clientVars, channelVars,
                   outboundVars, historyVars>>

NextPair ==
  \/ StartAccount
  \/ AcctTransportConnect
  \/ ReceiveEventPair
  \/ AckSettles
  \/ RecordSettles
  \/ DispatcherDelivers
  \/ DeliverPostSettles
  \/ DeliverReportSettles
  \/ DispatchCompletes

SpecPair == Init /\ [][NextPair]_vars

\* ================================================================== claims
IsSubSeqOf(small, big) ==
  \* small lists elements of big in big's order
  /\ Range(small) \subseteq Range(big)
  /\ \A i, j \in 1..Len(small) :
       i < j => \E k, l \in 1..Len(big) : k < l /\ big[k] = small[i] /\ big[l] = small[j]

\* C3 (the claim as stated): on every transport 'connect', a non-empty tracked
\* set is replayed in exactly one 'subscribe' frame carrying the whole set, and
\* an empty tracked set produces no frame.
C3_ReplayOnEveryConnect ==
  lastOp.op = "transport.connect" =>
    IF Len(subscribedPodIds) > 0
      THEN /\ Len(emitted) = 1
           /\ emitted[1].name = "subscribe"
           /\ emitted[1].podIds = subscribedPodIds
      ELSE emitted = <<>>

\* C4: a subscribe call on a connection holding a socket makes the tracked set
\* the union of the previous tracked set and the ids passed (so a sequence of
\* calls accumulates the union of all ids passed), and the frame it emits
\* carries exactly the ids of that call, not the resulting tracked set.
C4_SubscribeUnionAndFrame ==
  [][(lastOp'.op = "subscribe" /\ socket # 0) =>
       /\ Range(subscribedPodIds') = Range(subscribedPodIds) \cup Range(lastOp'.ids)
       /\ \A i \in 1..Len(emitted') :
            emitted'[i].name = "subscribe" /\ emitted'[i].podIds = lastOp'.ids
       /\ Len(emitted') = (IF Len(lastOp'.ids) > 0 THEN 1 ELSE 0)]_vars

\* C4 witness: [a,b] then [b,c] was subscribed; the tracked set is {a,b,c} and
\* the second frame carries [b,c].
C4_Witness ==
  /\ lastOp.op = "subscribe"
  /\ lastOp.ids = <<"b", "c">>
  /\ subscribedPodIds = <<"a", "b", "c">>
  /\ emitted = <<Frame(socket, "subscribe", <<"b", "c">>)>>

\* C5 (the claim as stated): every unsubscribe(ids) call sets the tracked set
\* to the previous set minus ids, the frame it emits carries exactly ids, and
\* no later replay contains an id that was passed to it.
C5_UnsubscribeAlwaysRemoves ==
  [][(lastOp'.op = "unsubscribe") =>
       /\ Range(subscribedPodIds') = Range(subscribedPodIds) \ Range(lastOp'.ids)
       /\ \A i \in 1..Len(emitted') :
            emitted'[i].name = "unsubscribe" /\ emitted'[i].podIds = lastOp'.ids]_vars

\* C5 (amended): while the connection holds a socket handle, unsubscribe(ids)
\* with a non-empty list sets the tracked set to the previous set minus ids in
\* the previous order, emits one 'unsubscribe' frame carrying exactly ids, and
\* no replay on a later transport 'connect' contains an id so removed unless it
\* was subscribed again; without a socket handle the call changes nothing.
C5_UnsubscribeWithSocket ==
  [][/\ (lastOp'.op = "unsubscribe" /\ socket # 0 /\ Len(lastOp'.ids) > 0) =>
          /\ Range(subscribedPodIds') = Range(subscribedPodIds) \ Range(lastOp'.ids)
          /\ IsSubSeqOf(subscribedPodIds', subscribedPodIds)
          /\ Len(subscribedPodIds') = Cardinality(Range(subscribedPodIds'))
          /\ emitted' = <<Frame(socket, "unsubscribe", lastOp'.ids)>>
     /\ (lastOp'.op = "unsubscribe" /\ socket = 0) =>
          /\ subscribedPodIds' = subscribedPodIds
          /\ emitted' = <<>>
     /\ (lastOp'.op = "transport.connect") =>
          \A i \in 1..Len(emitted') : Range(emitted'[i].podIds) \cap unsubscribed' = {}]_vars

\* C5 witness: b was unsubscribed from {a,b,c} and a later transport 'connect'
\* replayed [a,c].
C5_Witness ==
  /\ lastOp.op = "transport.connect"
  /\ unsubscribed = {"b"}
  /\ emitted = <<Frame(socket, "subscribe", <<"a", "c">>)>>

\* ------------------------------------------------- claims on the handler
Accepted(h) == ~h.late /\ h.ev.podId # ""
CallsOf(h, op) == {i \in 1..Len(h.calls) : h.calls[i].op = op}
CountOp(h, op) == Cardinality(CallsOf(h, op))
PostOps == {"postMessage", "postThreadComment"}
PipelineOps == {"resolveAgentRoute", "recordInboundSession", "dispatchReply"}
Posts(h) == {i \in 1..Len(h.calls) : h.calls[i].op \in PostOps}
Finished(h) == h.pc \in {"done", "threw"}
DispatchCompleted(h) ==
  \E i \in CallsOf(h, "dispatchReply") : h.calls[i].result = "ok"

RECURSIVE NonEmpty(_)
NonEmpty(texts) ==
  IF texts = <<>> THEN <<>>
  ELSE IF Head(texts) = "" THEN NonEmpty(Tail(texts))
  ELSE <<Head(texts)>> \o NonEmpty(Tail(texts))

\* the texts of the reply-block posts of h, in call order
RECURSIVE PostedTexts(_)
PostedTexts(calls) ==
  IF calls = <<>> THEN <<>>
  ELSE IF Head(calls).op \in PostOps THEN <<Head(calls).text>> \o PostedTexts(Tail(calls))
  ELSE PostedTexts(Tail(calls))

\* C1: an accepted event that carries an id and has a non-empty body is
\* acknowledged exactly once, when its dispatch has completed, whatever the
\* number of reply blocks delivered: never more than one ackEvent call, one as
\* soon as the dispatcher returned, and one when the handler has finished.
C1_AckExactlyOnce ==
  \A n \in 1..Len(handlers) :
    LET h == handlers[n]
    IN (Accepted(h) /\ h.ev.id # "" /\ h.ev.type # "summary.request"
        /\ rawContentOf(h.ev) # "") =>
         /\ CountOp(h, "ackEvent") <= 1
         /\ (CountOp(h, "ackEvent") = 1) <=> DispatchCompleted(h)
         /\ Finished(h) => CountOp(h, "ackEvent") = 1
         /\ \A i \in CallsOf(h, "ackEvent") : h.calls[i].target = h.ev.id

\* C1 witness: a handler finished after two posted reply blocks and one ack.
C1_Witness ==
  \E n \in 1..Len(handlers) :
    /\ handlers[n].pc = "done"
    /\ handlers[n].ev.id # ""
    /\ Cardinality(Posts(handlers[n])) >= 2
    /\ CountOp(handlers[n], "ackEvent") = 1

\* C2: for one event, ackEvent is called after every outbound post of its
\* delivery callback has settled, and nothing is called for the event after
\* its ackEvent call, also when that call fails: a failed ack ends the handler
\* with the deliveries made as they are.
C2_DeliveriesBeforeAck ==
  \A n \in 1..Len(handlers) :
    LET h == handlers[n]
    IN \A i \in CallsOf(h, "ackEvent") :
         /\ i = Len(h.calls)
         /\ \A j \in 1..(i - 1) : h.calls[j].result # "pending"
         /\ h.calls[i].result = "failed" => h.pc = "threw"

\* C2 witness: an ack failed after a reply block had been posted and reported.
C2_Witness ==
  \E n \in 1..Len(handlers) :
    LET h == handlers[n]
    IN /\ h.pc = "threw"
       /\ CountOp(h, "reportEnsembleResponse") = 1
       /\ Cardinality(Posts(h)) >= 1
       /\ h.calls[Len(h.calls)].op = "ackEvent"
       /\ h.calls[Len(h.calls)].result = "failed"

\* C6: an event that arrives after the abort signal fired has no effect: its
\* handler returns at once, makes no call at all (no session record, no
\* dispatch, no post, no ack) and no status update.
C6_DroppedAfterAbort ==
  \A n \in 1..Len(handlers) :
    handlers[n].late =>
      /\ handlers[n].calls = <<>>
      /\ handlers[n].statusUpdates = 0
      /\ handlers[n].blocks = <<>>
      /\ handlers[n].pc = "returned"
      /\ status.lastInboundBy # n
      /\ status.lastOutboundBy # n

\* C6 witness: an event with a pod, an id and a body arrived after the abort.
C6_Witness ==
  \E n \in 1..Len(handlers) :
    /\ handlers[n].late
    /\ handlers[n].ev.podId # ""
    /\ handlers[n].ev.id # ""
    /\ rawContentOf(handlers[n].ev) # ""

FirstOkPost(h) ==
  {i \in CallsOf(h, "postMessage") :
     /\ h.calls[i].result = "ok"
     /\ \A j \in CallsOf(h, "postMessage") : j < i => h.calls[j].result # "ok"}

\* C7 (the claim as stated): for every ensemble.turn event the report is made
\* at most once and it is made for the first reply block whose room post
\* succeeded.
C7_ReportFirstPost ==
  \A n \in 1..Len(handlers) :
    LET h == handlers[n]
    IN h.ev.type = "ensemble.turn" =>
         /\ CountOp(h, "reportEnsembleResponse") <= 1
         /\ \A i \in FirstOkPost(h) :
              /\ Len(h.calls) > i
              /\ h.calls[i + 1].op = "reportEnsembleResponse"

\* C7 (amended): for an ensemble.turn event that carries an ensembleId the
\* report is made at most once, right after the first reply block whose room
\* post succeeded and with that block's text, and no other block reports; an
\* ensemble.turn event without ensembleId is never reported.
C7_ReportFirstPostWithEnsembleId ==
  \A n \in 1..Len(handlers) :
    LET h == handlers[n]
    IN h.ev.type = "ensemble.turn" =>
         /\ CountOp(h, "reportEnsembleResponse") <= 1
         /\ h.ev.ensembleId = "" => CountOp(h, "reportEnsembleResponse") = 0
         /\ h.ev.ensembleId # "" =>
              /\ \A i \in FirstOkPost(h) :
                   /\ Len(h.calls) > i
                   /\ h.calls[i + 1].op = "reportEnsembleResponse"
                   /\ h.calls[i + 1].target = h.ev.ensembleId
                   /\ h.calls[i + 1].text = h.calls[i].text
              /\ \A r \in CallsOf(h, "reportEnsembleResponse") : r - 1 \in FirstOkPost(h)

\* C7 witness: two reply blocks of one ensemble.turn event were posted, the
\* first one was reported and the second one was not.
C7_Witness ==
  \E n \in 1..Len(handlers) :
    LET h == handlers[n]
    IN /\ h.ev.type = "ensemble.turn"
       /\ Finished(h)
       /\ Cardinality({i \in CallsOf(h, "postMessage") : h.calls[i].result = "ok"}) = 2
       /\ CountOp(h, "reportEnsembleResponse") = 1

BlocksDelivered(h, op, target) ==
  \* every non-empty block so far was handed to op, addressed to target
  /\ PostedTexts(h.calls) = NonEmpty(h.blocks)
  /\ \A i \in Posts(h) : h.calls[i].op = op /\ h.calls[i].target = target

\* C8 (the claim as stated): every non-empty reply block of a thread.mention
\* event is delivered with postThreadComment, never with postMessage and
\* never reported; every non-empty reply block of another event is delivered
\* with postMessage to the event's pod.
C8_ThreadMentionToThread ==
  \A n \in 1..Len(handlers) :
    LET h == handlers[n]
    IN (Accepted(h) /\ h.ev.type # "summary.request") =>
         IF h.ev.type = "thread.mention"
           THEN /\ PostedTexts(h.calls) = NonEmpty(h.blocks)
                /\ \A i \in Posts(h) : h.calls[i].op = "postThreadComment"
                /\ CountOp(h, "reportEnsembleResponse") = 0
           ELSE BlocksDelivered(h, "postMessage", h.ev.podId)

\* C8 (amended): every non-empty reply block of a thread.mention event that
\* carries a thread post id is delivered with postThreadComment to that post,
\* never with postMessage, and is never reported; every non-empty reply block
\* of any other event, a thread.mention without thread post id included, is
\* delivered with postMessage to the event's pod.
C8_ThreadIdToThread ==
  \A n \in 1..Len(handlers) :
    LET h == handlers[n]
    IN (Accepted(h) /\ h.ev.type # "summary.request") =>
         IF h.ev.type = "thread.mention" /\ h.ev.thread.present /\ h.ev.thread.postId # ""
           THEN /\ BlocksDelivered(h, "postThreadComment", h.ev.thread.postId)
                /\ CountOp(h, "reportEnsembleResponse") = 0
           ELSE /\ BlocksDelivered(h, "postMessage", h.ev.podId)
                /\ h.ev.type = "thread.mention" => CountOp(h, "reportEnsembleResponse") = 0

\* C8 witness: two reply blocks of a thread.mention event went to its thread.
C8_Witness ==
  \E n \in 1..Len(handlers) :
    LET h == handlers[n]
    IN /\ h.ev.type = "thread.mention"
       /\ Finished(h)
       /\ CountOp(h, "postThreadComment") = 2
       /\ CountOp(h, "postMessage") = 0

C10_SummaryPostedThenAcked ==
  \A n \in 1..Len(handlers) :
    LET h == handlers[n]
    IN (Accepted(h) /\ h.ev.type = "summary.request") =>
         /\ \A i \in 1..Len(h.calls) : h.calls[i].op \notin PipelineOps
         /\ Len(h.calls) >= 1
         /\ h.calls[1].op = "postMessage"
         /\ h.calls[1].target = h.ev.podId
         /\ Finished(h) => (Len(h.calls) = 2 /\ h.calls[2].op = "ackEvent")

\* C10 (amended): a summary.request event never reaches the reply pipeline.
\* When its payload carries a summary, the summary text is posted to the
\* event's pod with postMessage, and the event is acknowledged only after that
\* post succeeded and only when it carries an id; when that post fails the
\* handler ends without acknowledging. Without a summary nothing is posted
\* and the event is acknowledged at once when it carries an id.
C10_SummaryPostedThenAckedIfPossible ==
  \A n \in 1..Len(handlers) :
    LET h == handlers[n]
        text == buildSummaryMessage(h.ev.summary)
    IN (Accepted(h) /\ h.ev.type = "summary.request") =>
         /\ \A i \in 1..Len(h.calls) : h.calls[i].op \notin PipelineOps
         /\ h.blocks = <<>>
         /\ h.ev.summary.present =>
              /\ text # ""
              /\ Len(h.calls) \in {1, 2}
              /\ h.calls[1] = [Call("postMessage", h.ev.podId, text)
                                 EXCEPT !.result = h.calls[1].result]
              /\ Len(h.calls) = 2 =>
                   /\ h.calls[1].result = "ok"
                   /\ h.calls[2].op = "ackEvent"
                   /\ h.calls[2].target = h.ev.id
                   /\ h.ev.id # ""
              /\ h.calls[1].result = "failed" => (Len(h.calls) = 1 /\ h.pc = "threw")
              /\ (h.calls[1].result = "ok" /\ h.ev.id # "") => Len(h.calls) = 2
         /\ ~h.ev.summary.present =>
              /\ Len(h.calls) = (IF h.ev.id # "" THEN 1 ELSE 0)
              /\ \A i \in 1..Len(h.calls) :
                   h.calls[i].op = "ackEvent" /\ h.calls[i].target = h.ev.id

\* C10 witness: the summary text was posted to the pod, then the event was
\* acknowledged, and the handler is done.
C10_Witness ==
  \E n \in 1..Len(handlers) :
    LET h == handlers[n]
    IN /\ h.ev.type = "summary.request"
       /\ h.pc = "done"
       /\ Len(h.calls) = 2
       /\ h.calls[1].op = "postMessage"
       /\ h.calls[1].text = "Commonly Update\n[link] #general\n[chat] 3 messages\n\ndigest"
       /\ h.calls[1].result = "ok"
       /\ h.calls[2].op = "ackEvent"

\* ---------------------------------------------- claims on the connection
\* C11 (the claim as stated): every 'ping' received on a socket of the
\* connection is answered with exactly one 'pong' frame, in every reachable
\* connection state.
C11_PingAnsweredByPong ==
  lastOp.op = "transport.ping" =>
    /\ Len(emitted) = 1
    /\ emitted[1].name = "pong"

\* C12: connect() called while the connection is connected opens no socket,
\* leaves every socket with the handlers it had, emits no frame, reports no
\* status and leaves the tracked set and the socket handle unchanged.
C12_ConnectWhenConnectedIsNoOp ==
  [][(lastOp'.op \in {"connect", "connect.noop"} /\ isConnected(WsNow)) =>
       /\ sockets' = sockets
       /\ socket' = socket
       /\ subscribedPodIds' = subscribedPodIds
       /\ statusHandlers' = statusHandlers
       /\ emitted' = <<>>
       /\ statusCalls' = <<>>]_vars

\* C12 witness: connect() was called on a connected connection that tracks pods.
C12_Witness ==
  /\ lastOp.op = "connect.noop"
  /\ isConnected(WsNow)
  /\ Len(subscribedPodIds) > 0

\* C13 (the claim as stated): the promise of connect() is settled once, by the
\* first of 'connect' (resolved) and 'connect_error' (rejected); the handler
\* that fires first detaches the other one, so resolve and reject are called
\* once in all.
C13_SettlesOnceLoserDetached ==
  [][\A s \in 1..Len(sockets) :
       /\ (lastOp'.op = "transport.connect" /\ lastOp'.sock = s
           /\ sockets[s].promise = "pending") =>
            /\ sockets'[s].promise = "resolved"
            /\ ~sockets'[s].onceError
       /\ (lastOp'.op = "transport.connect_error" /\ lastOp'.sock = s
           /\ sockets[s].promise = "pending") =>
            /\ sockets'[s].promise = "rejected"
            /\ ~sockets'[s].onceConnect
       /\ sockets[s].promise # "pending" => sockets'[s].promise = sockets[s].promise
       /\ sockets'[s].settles <= 1]_vars

StatusCallsFor(connected, info) ==
  \* one call per registered observer, in registration order
  [i \in 1..Len(statusHandlers) |->
     [handler |-> statusHandlers[i], connected |-> connected, info |-> info]]

\* C14: on a transport 'connect' every registered status observer is called
\* exactly once with connected=true, on a 'disconnect' (transport-level or
\* caused by disconnect() on a connected socket) exactly once with
\* connected=false and the reason, on a 'connect_error' exactly once with
\* connected=false and the error, each time in registration order; no other
\* step calls an observer.
C14_ObserversOnceInOrder ==
  [][/\ statusCalls' =
          CASE lastOp'.op = "transport.connect" -> StatusCallsFor(TRUE, "none")
            [] lastOp'.op = "transport.disconnect" -> StatusCallsFor(FALSE, "reason")
            [] lastOp'.op = "transport.connect_error" -> StatusCallsFor(FALSE, "error")
            [] lastOp'.op = "disconnect" /\ isConnected(WsNow) -> StatusCallsFor(FALSE, "reason")
            [] OTHER -> <<>>
     /\ lastOp'.op # "onStatus" => statusHandlers' = statusHandlers]_vars

\* C14 witness: two observers were told of a disconnect, the first registered
\* first.
C14_Witness ==
  /\ lastOp.op = "transport.disconnect"
  /\ Len(statusCalls) = 2
  /\ statusCalls[1].handler = statusHandlers[1]
  /\ statusCalls[2].handler = statusHandlers[2]
  /\ statusCalls[1].handler # statusCalls[2].handler
  /\ statusCalls[1].info = "reason"

IsConnectedNow == isConnected(WsNow)

\* C15: after disconnect(), from any prior state, the socket the connection
\* held has been told to disconnect and is no longer connected, the connection
\* holds no socket handle, and isConnected() reports false.
C15_DisconnectReleasesHandle ==
  [][lastOp'.op = "disconnect" =>
       /\ socket' = 0
       /\ ~IsConnectedNow'
       /\ socket # 0 => (sockets'[socket].closed /\ ~sockets'[socket].connected)]_vars

\* C15 witness: disconnect() was called on a connected connection.
C15_Witness ==
  /\ lastOp.op = "disconnect"
  /\ lastOp.sock # 0
  /\ socket = 0
  /\ sockets[lastOp.sock].closed
  /\ Len(statusCalls) > 0

\* C16: disconnect() and a transport 'disconnect' leave the tracked set as it
\* was; a step that changes the tracked set is a subscribe or an unsubscribe.
C16_OnlySubscribeChangesTrackedSet ==
  [][/\ lastOp'.op \in {"disconnect", "transport.disconnect"} =>
          subscribedPodIds' = subscribedPodIds
     /\ subscribedPodIds' # subscribedPodIds =>
          lastOp'.op \in {"subscribe", "unsubscribe"}]_vars

\* C16 witness: the transport dropped, then disconnect() was called, and the
\* two tracked pods are still tracked.
C16_Witness ==
  /\ lastOp.op = "disconnect"
  /\ lastOp.sock # 0
  /\ ~sockets[lastOp.sock].connected
  /\ statusCalls = <<>>
  /\ subscribedPodIds = <<"a", "b">>

\* C17 (the claim as stated): subscribe and unsubscribe change nothing and emit
\* nothing whenever the connection is not connected or the list is empty.
C17_NoOpWhenNotConnected ==
  [][(lastOp'.op \in {"subscribe", "unsubscribe"}
      /\ (~isConnected(WsNow) \/ Len(lastOp'.ids) = 0)) =>
       /\ subscribedPodIds' = subscribedPodIds
       /\ emitted' = <<>>]_vars

\* C17 (amended): subscribe and unsubscribe change nothing and emit nothing
\* whenever the connection holds no socket handle or the list is empty; with
\* a socket handle and a non-empty list they emit one frame, also when the
\* socket is not connected.
C17_NoOpWithoutSocketOrIds ==
  [][lastOp'.op \in {"subscribe", "unsubscribe"} =>
       IF socket = 0 \/ Len(lastOp'.ids) = 0
         THEN /\ subscribedPodIds' = subscribedPodIds
              /\ emitted' = <<>>
              /\ sockets' = sockets
         ELSE emitted' = <<Frame(socket, lastOp'.op, lastOp'.ids)>>]_vars

\* C17 witness: subscribe was called with a pod after disconnect() on a
\* connection that tracks another pod; nothing was emitted.
C17_Witness ==
  /\ lastOp.op = "subscribe"
  /\ lastOp.sock = 0
  /\ lastOp.ids = <<"b">>
  /\ subscribedPodIds = <<"a">>
  /\ emitted = <<>>
  /\ Len(sockets) > 0

\* ------------------------------------------------- claims on the handler (2)
\* C18 (the claim as stated): a failing ackEvent call is contained: on every
\* acknowledging path the handler completes normally after its ack failed.
C18_AckFailureContained ==
  \A n \in 1..Len(handlers) :
    LET h == handlers[n]
    IN \A i \in CallsOf(h, "ackEvent") :
         h.calls[i].result = "failed" => h.pc = "done"

\* --------------------------------------------------- claims on the client
NotOk(call) == call.requests = 1 /\ call.resp.fetch = "ok" /\ ~call.resp.ok

\* C19: when the HTTP call of a client method returns a response that is not
\* ok, postMessage, postThreadComment, ackEvent and writeMemory raise, while
\* search, getMessages and getSummaries return [] and getContext and
\* readMemory return null, none of them raising.
C19_RaiseOrDefaultOnFailure ==
  NotOk(clientCall) =>
    /\ clientCall.method \in {"postMessage", "postThreadComment", "ackEvent", "writeMemory"} =>
         (clientCall.outcome = "raised" /\ clientCall.error = "status")
    /\ clientCall.method \in {"search", "getMessages", "getSummaries"} =>
         (clientCall.outcome = "returned" /\ clientCall.value = "[]")
    /\ clientCall.method \in {"getContext", "readMemory"} =>
         (clientCall.outcome = "returned" /\ clientCall.value = "null")

\* C19 witness: writeMemory raised on a response that was not ok.
C19_Witness ==
  /\ clientCall.method = "writeMemory"
  /\ NotOk(clientCall)
  /\ clientCall.outcome = "raised"
  /\ clientCall.error = "status"

RuntimeScoped == {"fetchEvents", "ackEvent", "postMessage", "postThreadComment",
                  "getContext", "getMessages", "reportEnsembleResponse"}
UserScoped == {"search", "readMemory", "writeMemory", "getSummaries"}
HasToken(t) == Trim(t) # ""
ConfigurationError(call) ==
  call.outcome = "raised" /\ call.error = "config" /\ call.requests = 0

\* C20: without a runtime token every runtime-scoped call fails with a
\* configuration error and issues no HTTP request; without any token every
\* user-scoped call fails the same way; with a runtime token only, a
\* user-scoped call issues its request with the runtime token, and with both
\* tokens with the user token.
C20_TokenSelection ==
  /\ (clientCall.method \in RuntimeScoped /\ ~HasToken(client.runtimeToken)) =>
       ConfigurationError(clientCall)
  /\ (clientCall.method \in UserScoped /\ ~HasToken(client.runtimeToken)
      /\ ~HasToken(client.userToken)) =>
       ConfigurationError(clientCall)
  /\ (clientCall.method \in UserScoped /\ HasToken(client.runtimeToken)
      /\ ~HasToken(client.userToken)) =>
       (clientCall.requests = 1 /\ clientCall.authorization = Trim(client.runtimeToken))
  /\ (clientCall.method \in UserScoped /\ HasToken(client.runtimeToken)
      /\ HasToken(client.userToken)) =>
       (clientCall.requests = 1 /\ clientCall.authorization = Trim(client.userToken))

\* C20 witness: search succeeded on a client that has a runtime token only.
C20_Witness ==
  /\ clientCall.method = "search"
  /\ client = [runtimeToken |-> "rt", userToken |-> ""]
  /\ clientCall.outcome = "returned"
  /\ clientCall.authorization = "rt"

\* ------------------------------------------------- claims on the handler (3)
\* C21 (the claim as stated): an accepted heartbeat event always reaches the
\* reply pipeline: without payload.content its body is the fixed
\* system-heartbeat sentence, with payload.content its body is that content.
C21_HeartbeatAlwaysDispatched ==
  \A n \in 1..Len(handlers) :
    LET h == handlers[n]
        expected == IF Trim(h.ev.content) = ""
                      THEN "System heartbeat from Commonly scheduler"
                      ELSE h.ev.content
    IN Accepted(h) /\ h.ev.type = "heartbeat" =>
         \E i \in CallsOf(h, "recordInboundSession") : h.calls[i].text = expected

\* C23 (the claim as stated): for an accepted event whose type is outside
\* the recognized set the reply pipeline is not invoked and nothing is
\* delivered: the only calls its handler makes are acknowledgments.
C23_UnrecognizedTypeOnlyAcked ==
  \A n \in 1..Len(handlers) :
    LET h == handlers[n]
        recognized == {"chat.mention", "thread.mention", "summary.request",
                       "ensemble.turn", "pod.message", "heartbeat"}
    IN Accepted(h) /\ h.ev.type \notin recognized =>
         /\ \A i \in 1..Len(h.calls) : h.calls[i].op = "ackEvent"
         /\ h.blocks = <<>>

\* C24 (the claim as stated): for an accepted thread.mention event with post
\* or comment content the reply pipeline is handed "Post: X\n\nComment: Y"
\* when both are present, "Post: X" when only the post content is, and the
\* comment content when there is no post content.
C24_ThreadBodyHandedToPipeline ==
  \A n \in 1..Len(handlers) :
    LET h == handlers[n]
        X == IF h.ev.thread.present THEN Trim(h.ev.thread.postContent) ELSE ""
        Y == Trim(h.ev.content)
        expected == IF X # "" /\ Y # "" THEN "Post: " \o X \o "\n\n" \o "Comment: " \o Y
                    ELSE IF X # "" THEN "Post: " \o X
                    ELSE Y
    IN Accepted(h) /\ h.ev.type = "thread.mention" /\ expected # "" =>
         \E i \in CallsOf(h, "recordInboundSession") : h.calls[i].text = expected

\* C26 (the claim as stated): the reply dispatch of an ensemble.turn event
\* runs without a response prefix, that of any other event with the
\* configured one.
C26_PrefixDisabledForEnsembleTurn ==
  \A n \in 1..Len(handlers) :
    LET h == handlers[n]
    IN \A i \in CallsOf(h, "dispatchReply") :
         h.calls[i].text = IF h.ev.type = "ensemble.turn" THEN "" ELSE ConfiguredPrefix

\* C27: when the abort signal fires for a running account, startAccount
\* releases and closes the socket, removes the connection from the registry
\* and then reports running = false, connected = false with a stop stamp;
\* once stopped, no later step reports another running or connected value.
C27_AbortTearsDownAndStops ==
  [][/\ (run = "running" /\ ~aborted /\ aborted') =>
          /\ run' = "stopped"
          /\ socket' = 0
          /\ socket # 0 => sockets'[socket].closed /\ ~sockets'[socket].connected
          /\ AccountKey \notin activeConnections'
          /\ ~status'.running /\ ~status'.connected /\ status'.stopped
     /\ run = "stopped" =>
          /\ run' = "stopped"
          /\ ~status'.running /\ ~status'.connected /\ status'.stopped]_vars

\* C27 witness: a connected account that had received an event was aborted
\* and is stopped.
C27_Witness ==
  /\ lastOp.op = "abort"
  /\ run = "stopped"
  /\ Len(handlers) > 0
  /\ Len(sockets) > 0 /\ sockets[1].closed
  /\ status.stopped /\ ~status.running /\ ~status.connected

\* the calls of h that deliver a reply block (the post of a summary request
\* is made by the handler itself, outside the dispatch)
DeliveryCalls(h) ==
  IF h.ev.type = "summary.request" THEN {}
  ELSE Posts(h) \cup CallsOf(h, "reportEnsembleResponse")
FailedCalls(h, is) == {i \in is : h.calls[i].result = "failed"}
\* h was rejected by something else than a failed acknowledgment
RejectedBeforeAck(h) ==
  h.pc = "threw" /\ h.calls[Len(h.calls)].op # "ackEvent"

C22_SummaryRequestBecomesSummary ==
  \A k \in 1..Len(inbound) :
    inbound[k].event.type = "summary.request" =>
      /\ inbound[k].message.present
      /\ inbound[k].message.type = "summary"
      /\ inbound[k].message.content # ""
      /\ inbound[k].message.metadata # {}
      /\ inbound[k].handled

BlankAt(seq) == {k \in 1..Len(seq) : seq[k] = ""}
UpToBlank(seq) ==
  IF BlankAt(seq) = {} THEN seq
  ELSE SubSeq(seq, 1, (CHOOSE k \in BlankAt(seq) : \A j \in BlankAt(seq) : k <= j) - 1)
\* the lines that follow the header up to the next blank line
SectionOf(lines, header) ==
  LET i == CHOOSE k \in 1..Len(lines) : lines[k] = header
  IN UpToBlank(SubSeq(lines, i + 1, Len(lines)))
PrecededByBlank(lines, header) ==
  \A k \in 1..Len(lines) : lines[k] = header => k > 1 /\ lines[k - 1] = ""
\* the last five entries of seq at most, in their order
LastFive(seq) ==
  LET m == IF Len(seq) < 5 THEN Len(seq) ELSE 5
  IN [k \in 1..m |-> seq[Len(seq) - m + k]]

\* C25: the body of an ensemble.turn event with a context has the starter
\* sentence exactly when isStarter is true and the responder sentence exactly
\* when it is false; it has a "Recent history:" section exactly when the
\* history is not empty and a "Key points:" section exactly when the key
\* points are not empty, each after a blank line and listing the last five
\* entries at most, in their original order.
C25_EnsembleTurnBodySections ==
  (formatted.kind = "ensemble.turn" /\ formatted.event.context.present) =>
    LET lines == formatted.lines
        context == formatted.event.context
        history == LastFive(context.recentHistory)
        points == LastFive(context.keyPoints)
    IN /\ formatted.body = Join(lines, "\n")
       /\ ("You are the starter. Provide the opening message." \in Range(lines))
            <=> context.isStarter
       /\ ("You are responding to the ongoing discussion." \in Range(lines))
            <=> ~context.isStarter
       /\ ("Recent history:" \in Range(lines)) <=> Len(context.recentHistory) > 0
       /\ ("Key points:" \in Range(lines)) <=> Len(context.keyPoints) > 0
       /\ PrecededByBlank(lines, "Recent history:")
       /\ PrecededByBlank(lines, "Key points:")
       /\ Len(context.recentHistory) > 0 =>
            SectionOf(lines, "Recent history:") =
              [k \in 1..Len(history) |->
                 "- " \o history[k].agentType \o ": " \o history[k].content]
       /\ Len(context.keyPoints) > 0 =>
            SectionOf(lines, "Key points:") =
              [k \in 1..Len(points) |-> "- " \o points[k].content]

\* C25 witness: a responder's turn whose context has six history entries and
\* six key points: the body lists the last five of each.
C25_Witness ==
  /\ formatted.kind = "ensemble.turn"
  /\ formatted.event.context.present
  /\ ~formatted.event.context.isStarter
  /\ Len(formatted.event.context.recentHistory) = 6
  /\ Len(formatted.event.context.keyPoints) = 6
  /\ "- agent: h1" \notin Range(formatted.lines)
  /\ "- agent: h6" \in Range(formatted.lines)
  /\ "- k2" \in Range(formatted.lines)

\* ------------------------------------------------- claims on the handler (4)
\* C31 (the claim as stated): every reply block whose post succeeded is
\* followed by a lastOutboundAt status update, also when the report of the
\* ensemble response that follows the post fails; a block with an empty
\* message makes no post and no status update.
C31_StatusAfterEverySuccessfulPost ==
  \A n \in 1..Len(handlers) :
    LET h == handlers[n]
        okPosts == {i \in Posts(h) : h.calls[i].result = "ok"}
        reporting == IF h.pc = "deliver.report" THEN 1 ELSE 0
    IN (Accepted(h) /\ h.ev.type # "summary.request") =>
         /\ PostedTexts(h.calls) = NonEmpty(h.blocks)
         /\ h.statusUpdates = 1 + Cardinality(okPosts) - reporting

\* C34: the abort signal leaves the handlers in flight as they are, and an
\* event accepted before it goes on as without it: every non-empty reply
\* block handed to deliver is posted, a successful post is recorded as the
\* latest outbound activity, and the event is acknowledged when its dispatch
\* has completed, all of which may come after the account reported
\* running = false.
C34_InFlightWorkSurvivesAbort ==
  [][/\ lastOp'.op = "abort" => handlers' = handlers
     /\ aborted' =>
          \A n \in 1..Len(handlers') :
            LET h == handlers'[n]
            IN (Accepted(h) /\ h.ev.type # "summary.request") =>
                 /\ PostedTexts(h.calls) = NonEmpty(h.blocks)
                 /\ h.statusUpdates > 1 => status'.lastOutboundBy = n
                 /\ (DispatchCompleted(h) /\ h.ev.id # "") => CountOp(h, "ackEvent") = 1
     /\ (run = "stopped" /\ lastOp'.op = "handler") =>
          ~status'.running /\ ~status'.connected]_vars

\* C34 witness: on a stopped account, the second reply block of an event
\* accepted before the abort has just been posted and recorded as outbound
\* activity; the event is not acknowledged yet.
C34_Witness ==
  /\ run = "stopped"
  /\ ~status.running
  /\ lastOp.op = "handler"
  /\ \E n \in 1..Len(handlers) :
       LET h == handlers[n]
       IN /\ Accepted(h)
          /\ h.pc = "dispatch"
          /\ Len(h.blocks) = 2
          /\ h.calls[Len(h.calls)].op = "postMessage"
          /\ h.calls[Len(h.calls)].result = "ok"
          /\ status.lastOutboundBy = n
          /\ CountOp(h, "ackEvent") = 0

\* the 'subscribe' frames among frames
SubscribeFrames(frames) == SelectSeq(frames, LAMBDA f : f.name = "subscribe")

\* C36: while startAccount waits for the connection no 'subscribe' frame is
\* emitted; in the step in which the connection is established, one
\* 'subscribe' frame carrying all configured pods is emitted when the pod
\* list is not empty and none when it is empty; afterwards the tracked set is
\* the configured list, and the connection is registered as active unless the
\* account was aborted in the meantime.
C36_InitialSubscribeOnceAfterConnect ==
  [][/\ run' = "connecting" => SubscribeFrames(emitted') = <<>>
     /\ (run = "connecting" /\ run' \in {"running", "stopped"}) =>
          /\ lastOp'.op = "transport.connect"
          /\ SubscribeFrames(emitted') =
               (IF Len(account.podIds) > 0
                  THEN <<Frame(lastOp'.sock, "subscribe", account.podIds)>>
                  ELSE <<>>)
          /\ subscribedPodIds' = account.podIds
          /\ run' = "running" =>
               /\ AccountKey \in activeConnections'
               /\ socket' = lastOp'.sock
               /\ sockets'[socket'].connected]_vars

\* C36 witness: the account configured with pods a and b has just started:
\* one frame for both pods, both tracked, the connection registered.
C36_Witness ==
  /\ lastOp.op = "transport.connect"
  /\ run = "running"
  /\ account.podIds = <<"a", "b">>
  /\ emitted = <<Frame(socket, "subscribe", <<"a", "b">>)>>
  /\ subscribedPodIds = <<"a", "b">>
  /\ AccountKey \in activeConnections

\* C37: the registry of active connections holds the account's entry exactly
\* while the account is running: none before the connection is established,
\* none when connecting failed, none once the account is stopped; the entry
\* is added by the step that completes the start and removed by the teardown.
C37_RegisteredExactlyWhileRunning ==
  [][/\ (AccountKey \in activeConnections') <=> (run' = "running")
     /\ activeConnections' \subseteq {AccountKey}
     /\ (AccountKey \notin activeConnections /\ AccountKey \in activeConnections') =>
          run = "connecting" /\ lastOp'.op = "transport.connect"
     /\ (AccountKey \in activeConnections /\ AccountKey \notin activeConnections') =>
          lastOp'.op = "abort" /\ socket' = 0]_vars

\* C37 witness: the account was registered, then aborted: its entry is gone.
C37_Witness ==
  /\ lastOp.op = "abort"
  /\ run = "stopped"
  /\ activeConnections = {}
  /\ subscribedPodIds = <<"a", "b">>
  /\ socket = 0

\* C39: on every path of the handler ackEvent is called at most once for the
\* event, with the event's id, and it is never called for an event without
\* id, without podId, or received after the abort signal.
C39_AckAtMostOnceAndOnlyWithId ==
  \A n \in 1..Len(handlers) :
    LET h == handlers[n]
    IN /\ CountOp(h, "ackEvent") <= 1
       /\ \A i \in CallsOf(h, "ackEvent") : h.calls[i].target = h.ev.id
       /\ (h.ev.id = "" \/ h.ev.podId = "" \/ h.late) => CountOp(h, "ackEvent") = 0

\* C39 witness: an event without id was dispatched, a reply was posted, and
\* the handler is done without any acknowledgment.
C39_Witness ==
  \E n \in 1..Len(handlers) :
    LET h == handlers[n]
    IN /\ h.pc = "done"
       /\ h.ev.id = ""
       /\ DispatchCompleted(h)
       /\ \E i \in Posts(h) : h.calls[i].result = "ok"
       /\ CountOp(h, "ackEvent") = 0

\* C40: a summary.request event is acknowledged only after its summary post
\* succeeded, or without any post when the summary text is empty; when the
\* summary post fails the handler ends and the event is never acknowledged.
C40_SummaryAckOnlyAfterPost ==
  \A n \in 1..Len(handlers) :
    LET h == handlers[n]
        text == buildSummaryMessage(h.ev.summary)
    IN h.ev.type = "summary.request" =>
         /\ \A a \in CallsOf(h, "ackEvent") :
              IF text = "" THEN Posts(h) = {}
              ELSE \E p \in Posts(h) : p < a /\ h.calls[p].result = "ok"
         /\ \A p \in Posts(h) :
              h.calls[p].result = "failed" =>
                CountOp(h, "ackEvent") = 0 /\ h.pc = "threw"

\* C40 witness: the summary post of a request carrying an id failed; the
\* handler has ended and made no acknowledgment.
C40_Witness ==
  \E n \in 1..Len(handlers) :
    LET h == handlers[n]
    IN /\ h.ev.type = "summary.request"
       /\ h.ev.id # ""
       /\ h.pc = "threw"
       /\ Len(h.calls) = 1
       /\ h.calls[1].op = "postMessage"
       /\ h.calls[1].result = "failed"

\* ------------------------------------------------ claims on the outbound send
\* C32 (the claim as stated): a sendText or sendMedia whose composed message
\* is empty returns a synthetic message id and makes no client call, with or
\* without a threadId.
C32_EmptySendMakesNoCall ==
  (outbound.method \in {"sendText", "sendMedia"} /\ outbound.message = "") =>
    /\ outbound.calls = <<>>
    /\ outbound.outcome = "returned"
    /\ outbound.messageId.kind = "synthetic"

\* ------------------------------------------- claims on two interleaved events
\* C33: with the handlers of two different ensemble.turn events interleaved,
\* each event that carries an ensembleId and had a room post succeed has
\* exactly one report, made right after its own first successful post, with
\* its own ensembleId and that post's text; an event without successful post
\* has none, and the flag of a handler is set by its own report only.
C33_ReportFlagPerEvent ==
  \A n \in 1..Len(handlers) :
    LET h == handlers[n]
        reports == CallsOf(h, "reportEnsembleResponse")
    IN (h.ev.type = "ensemble.turn" /\ h.ev.ensembleId # "") =>
         /\ h.sent <=> reports # {}
         /\ Cardinality(reports) = (IF FirstOkPost(h) = {} THEN 0 ELSE 1)
         /\ \A r \in reports :
              /\ r - 1 \in FirstOkPost(h)
              /\ h.calls[r].target = h.ev.ensembleId
              /\ h.calls[r].text = h.calls[r - 1].text
              /\ \A m \in 1..Len(handlers) :
                   m # n => h.calls[r].target # handlers[m].ev.ensembleId

\* C33 witness: the reports of two ensemble.turn events are in flight at the
\* same time, each with the ensembleId of its own event.
C33_Witness ==
  /\ Len(handlers) = 2
  /\ \A n \in 1..2 :
       LET h == handlers[n]
       IN /\ h.ev.type = "ensemble.turn"
          /\ h.pc = "deliver.report"
          /\ h.calls[Len(h.calls)].op = "reportEnsembleResponse"
          /\ h.calls[Len(h.calls)].target = h.ev.ensembleId
  /\ handlers[1].ev.ensembleId # handlers[2].ev.ensembleId

\* C35: the handler of an event starts when its frame arrives, whatever the
\* handlers of earlier events are doing: an accepted event with a body is
\* routed and its session record is called in the step that receives it,
\* and the handlers already in flight are left as they are; a step of one
\* handler changes no other handler.
C35_HandlersNotSerialized ==
  [][/\ lastOp'.op = "transport.event" =>
          /\ Len(handlers') = Len(handlers) + 1
          /\ SubSeq(handlers', 1, Len(handlers)) = handlers
          /\ LET h == handlers'[Len(handlers')]
             IN (Accepted(h) /\ h.ev.type # "summary.request" /\ rawContentOf(h.ev) # "") =>
                  /\ h.pc = "record"
                  /\ CountOp(h, "recordInboundSession") = 1
     /\ lastOp'.op = "handler" =>
          /\ Len(handlers') = Len(handlers)
          /\ \A n \in 1..Len(handlers) :
               n # lastOp'.sock => handlers'[n] = handlers[n]]_vars

\* C35 witness: the first event is still waiting for its session record while
\* the second event, received after it, was dispatched, posted a reply and
\* was acknowledged.
C35_Witness ==
  /\ Len(handlers) = 2
  /\ handlers[1].pc = "record"
  /\ handlers[1].calls[Len(handlers[1].calls)].result = "pending"
  /\ CountOp(handlers[1], "ackEvent") = 0
  /\ handlers[2].pc = "done"
  /\ \E i \in Posts(handlers[2]) : handlers[2].calls[i].result = "ok"
  /\ \E a \in CallsOf(handlers[2], "ackEvent") : handlers[2].calls[a].result = "ok"

\* ------------------------------------------------ claims on the tracked set
\* C38 (the claim as stated): the tracked list never holds a pod twice and
\* lists its pods in the order in which they were first subscribed.
C38_NoDuplicatesInFirstSubscriptionOrder ==
  /\ Len(subscribedPodIds) = Cardinality(Range(subscribedPodIds))
  /\ IsSubSeqOf(subscribedPodIds, firstSubscribed)

\* C38 (amended): the tracked list never holds a pod twice; a subscribe keeps
\* the pods already tracked in their places and appends the new ones in the
\* order of the call, every other step keeps the order of the pods that stay,
\* so the list is in the order in which its pods were last added; every
\* replay frame carries the tracked list and so each pod at most once.
C38_NoDuplicatesInOrderOfAddition ==
  [][/\ Len(subscribedPodIds') = Cardinality(Range(subscribedPodIds'))
     /\ IF lastOp'.op = "subscribe" /\ socket # 0
          THEN /\ Len(subscribedPodIds') >= Len(subscribedPodIds)
               /\ SubSeq(subscribedPodIds', 1, Len(subscribedPodIds)) = subscribedPodIds
               /\ IsSubSeqOf(SubSeq(subscribedPodIds', Len(subscribedPodIds) + 1,
                                    Len(subscribedPodIds')),
                             lastOp'.ids)
          ELSE IsSubSeqOf(subscribedPodIds', subscribedPodIds)
     /\ lastOp'.op = "transport.connect" =>
          \A i \in 1..Len(emitted') :
            /\ emitted'[i].podIds = subscribedPodIds'
            /\ Len(emitted'[i].podIds) = Cardinality(Range(emitted'[i].podIds))]_vars

\* C38 witness: a was subscribed before b, then unsubscribed and subscribed
\* again; the reconnect replays [b, a].
C38_Witness ==
  /\ lastOp.op = "transport.connect"
  /\ firstSubscribed = <<"a", "b">>
  /\ subscribedPodIds = <<"b", "a">>
  /\ emitted = <<Frame(socket, "subscribe", <<"b", "a">>)>>

====
